---- MODULE Spec2Model ----
(***************************************************************************)
(* University Assignment Approval System: the assignment review state      *)
(* machine (student routes, professor routes) and the in-memory OTP store. *)
(* Text values are sequences of one-character strings; an optional value   *)
(* is the empty sequence (absent) or a one-element sequence (present).     *)
(***************************************************************************)
EXTENDS Integers, Sequences, FiniteSets, TLC

\* ---------------------------------------------------------------- bounds
MaxAssignments == 1
MaxHistory == 3
MaxTicks == 2
MaxDepartments == 3
MaxUsers == 5

\* ------------------------------------------------------------- constants
NULL == 0
OTP_EXPIRY_MS == 10 * 60 * 1000
TickMs == OTP_EXPIRY_MS

None == << >>
Some(x) == << x >>

\* ------------------------------------------------------------------ text
SP == " "

RECURSIVE TrimStart(_)
TrimStart(s) == IF s # << >> /\ Head(s) = SP THEN TrimStart(Tail(s)) ELSE s

RECURSIVE TrimEnd(_)
TrimEnd(s) ==
  IF s # << >> /\ s[Len(s)] = SP THEN TrimEnd(SubSeq(s, 1, Len(s) - 1)) ELSE s

\* String.prototype.trim
Trim(s) == TrimEnd(TrimStart(s))

\* ----------------------------------------------------------------- users
\* User rows at the start: a student, a professor and the HOD of department 1,
\* and a professor of department 2
Users == 1 .. 4
\* the rows that user creation adds describe the account of the student Fay
userRole == << "STUDENT", "PROFESSOR", "HOD", "PROFESSOR" >>
              \o [u \in 1 .. MaxUsers - 4 |-> "STUDENT"]
userName == << <<"A","n","n">>, <<"B","o","b">>, <<"D","e","e">>, <<"E","d">> >>
              \o [u \in 1 .. MaxUsers - 4 |-> <<"F","a","y">>]
userEmail == << <<"a","@","u",".","e">>, <<"b","@","u",".","e">>,
                <<"d","@","u",".","e">>, <<"e","@","u",".","e">> >>
               \o [u \in 1 .. MaxUsers - 4 |-> <<"f","@","u",".","e">>]
InitDept == << 1, 1, 1, 2 >>

\* rows of the Department table at the start
DepartmentRow(name, type, address) == [name |-> name, type |-> type, address |-> address]
InitDepartments == << Some(DepartmentRow("CS", "UG", "a1")),
                      Some(DepartmentRow("EE", "PG", "a2")) >>

\* callers of the upload endpoint
Uploaders == {1}
\* callers of the student endpoints: an owner and a user who owns nothing
StudentCallers == {1, 2}

\* requireRole(...roles): the token's role must be one of roles
requireRole(u, roles) == userRole[u] \in roles

\* --------------------------------------------------------------- inputs
Otp1 == <<"1","0","0","0","0","0">>
Otp2 == <<"9","9","9","9","9","9">>
\* Math.floor(100000 + Math.random() * 900000).toString()
generateOtp == {Otp1, Otp2}

\* request bodies { remarks?, signature? } of the two approval endpoints
Body(remarks, signature) == [remarks |-> remarks, signature |-> signature]
RequestBodies == {Body(None, None), Body(Some(<< >>), Some(<< >>)),
                  Body(Some(<<"o","k">>), Some(<<"s","i","g">>))}
\* requests { otp, remarks?, signature? } of the verify endpoint
VerifyInput(otp, body) == [otp |-> otp, body |-> body]
VerifyInputs ==
  {VerifyInput(<< >>, Body(None, None)),
   VerifyInput(Otp2, Body(None, None)),
   VerifyInput(Otp1, Body(None, None)),
   VerifyInput(<<SP>> \o Otp1 \o <<SP>>, Body(None, Some(<< >>))),
   VerifyInput(Otp1, Body(Some(<<"n","o">>), Some(<<"z","e","d">>)))}
RemarkInputs == {None,
                 Some(<<"t","o","o"," ","s","h","o","r","t">>),
                 Some(<<"r","e","d","o"," ","i","t",SP,SP,SP>>),
                 Some(<<SP,"n","e","e","d","s"," ","w","o","r","k">>)}
NoteInputs == {Some(<<SP,"c","h","e","c","k">>)}

\* reviewerId / newReviewerId of a request body, NULL when missing
ReviewerInputs == (Users \ Uploaders) \cup {NULL}

\* crypto.createHash('sha256').update(signature).digest('hex')
signatureHash(signature) == <<"sha256:">> \o signature

\* ----------------------------------------------------------------- state
VARIABLES
  assignments,    \* Assignment table: sequence, id = index
  history,        \* AssignmentHistory table, in insertion order
  notifications,  \* Notification table, in insertion order
  otpStore,       \* Map "assignmentId:professorId" -> record, None if absent
  userDept,       \* User.departmentId
  now,            \* Date.now()
  last,           \* the last request's handler and its HTTP response
  departments,    \* Department table: sequence, id = index, None once deleted
  users,          \* ids of the rows of the User table
  flight          \* requests that have started and not yet answered

vars == << assignments, history, notifications, otpStore, userDept, now, last,
           departments, users, flight >>

\* ids a request may name: the rows that can exist and one that never does
AssignmentIds == 1 .. MaxAssignments + 1
\* ids a mark-read request may name: the oldest row and one that never exists
NotificationIds == {1, MaxHistory + 1}
OtpKeys == AssignmentIds \X Users

Exists(a) == a \in 1 .. Len(assignments)

Reply(op, status, err) == [op |-> op, status |-> status, err |-> err]

Init ==
  /\ assignments = << >>
  /\ history = << >>
  /\ notifications = << >>
  /\ otpStore = [k \in OtpKeys |-> None]
  /\ userDept = InitDept
  /\ now = 0
  /\ last = Reply("none", 0, "none")
  /\ departments = InitDepartments
  /\ users = Users
  /\ flight = << >>

\* ------------------------------------------------------------- the clock
Tick ==
  /\ now < MaxTicks * TickMs
  /\ now' = now + TickMs
  /\ UNCHANGED << assignments, history, notifications, otpStore, userDept, departments, users, flight, last >>

\* ------------------------------------- POST /student/assignments/upload
NewAssignment(studentId) ==
  [studentId |-> studentId, status |-> "DRAFT", reviewerId |-> NULL,
   submittedAt |-> None, description |-> None, filePath |-> "f1"]

Upload(u, hasFile) ==
  /\ Len(assignments) < MaxAssignments
  /\ IF ~requireRole(u, {"STUDENT", "PROFESSOR", "HOD"})
       THEN /\ last' = Reply("upload", 403, "Forbidden")
            /\ UNCHANGED assignments
     ELSE IF ~hasFile
       THEN /\ last' = Reply("upload", 400, "ValidationError")
            /\ UNCHANGED assignments
     ELSE \E createOk \in {TRUE} \cup {u \in users} :
            IF createOk
              THEN /\ assignments' = Append(assignments, NewAssignment(u))
                   /\ last' = Reply("upload", 201, "OK")
              ELSE /\ last' = Reply("upload", 500, "Internal")
                   /\ UNCHANGED assignments
  /\ UNCHANGED << history, notifications, otpStore, userDept, departments, users, flight, now >>

\* ---------------------------- POST /student/assignments/bulk-upload
MAX_BULK_FILES == 5
\* numbers of files of a request: none, one, two, and one more than allowed
BulkCounts == {0, 1, 2, MAX_BULK_FILES + 1}
\* category of a request body, absent or given
BulkCategories == {None, Some("thesis"), Some("essay")}

\* category ? String(category).toUpperCase() : 'ASSIGNMENT'
normalizedCategory(category) ==
  IF category = None THEN "ASSIGNMENT"
  ELSE CASE category[1] = "thesis" -> "THESIS"
         [] category[1] = "essay" -> "ESSAY"
         [] OTHER -> category[1]

allowedCategories == {"ASSIGNMENT", "THESIS", "REPORT"}

BulkUploadCheck(u, files, allPdf, category) ==
  IF ~requireRole(u, {"STUDENT", "PROFESSOR", "HOD"}) THEN <<403, "Forbidden">>
  ELSE IF files = 0 THEN <<400, "ValidationError">>
  ELSE IF files > MAX_BULK_FILES THEN <<400, "TooManyFiles">>
  ELSE IF ~allPdf THEN <<400, "InvalidFile">>
  ELSE IF normalizedCategory(category) \notin allowedCategories
    THEN <<400, "InvalidCategory">>
  ELSE <<201, "OK">>

\* one prisma.assignment.create per file, each in its own try: created is the
\* number of creates that succeed
BulkUpload(u, files, allPdf, category) ==
  LET chk == BulkUploadCheck(u, files, allPdf, category) IN
  /\ IF chk[2] # "OK"
       THEN /\ last' = Reply("bulkUpload", chk[1], chk[2])
            /\ UNCHANGED assignments
       ELSE \E created \in 0 .. files :
              /\ Len(assignments) + created <= MaxAssignments
              /\ assignments' = assignments \o [i \in 1 .. created |-> NewAssignment(u)]
              /\ last' = IF created = 0 THEN Reply("bulkUpload", 500, "Internal")
                                        ELSE Reply("bulkUpload", 201, "OK")
  /\ UNCHANGED << history, notifications, otpStore, userDept, departments, users, flight, now >>

\* ---------------------------------------------------- table write helpers
HistoryRow(assignmentId, reviewerId, action, remark, signature) ==
  [assignmentId |-> assignmentId, reviewerId |-> reviewerId, action |-> action,
   remark |-> remark, signature |-> signature]

NotificationRow(userId, assignmentId, type) ==
  [userId |-> userId, assignmentId |-> assignmentId, type |-> type, read |-> FALSE]

\* room left in the bounded tables
Room == Len(history) < MaxHistory /\ Len(notifications) < MaxHistory

\* ------------------------------- POST /student/assignments/:id/submit
\* the assignment row after prisma.assignment.update in submit
SubmitUpdate(row, reviewerId) ==
  [row EXCEPT !.status = "SUBMITTED", !.reviewerId = reviewerId,
              !.submittedAt = Some(now)]

\* SubmitCheck without the comparison of the departments
SubmitCheck_AnyDepartment(u, a, reviewerId) ==
  IF ~requireRole(u, {"STUDENT", "PROFESSOR", "HOD"}) THEN <<403, "Forbidden">>
  ELSE IF reviewerId = NULL THEN <<400, "ValidationError">>
  ELSE IF ~(Exists(a) /\ assignments[a].studentId = u) THEN <<404, "NotFound">>
  ELSE IF assignments[a].status # "DRAFT" THEN <<400, "InvalidState">>
  ELSE IF ~(reviewerId \in users /\ userRole[reviewerId] = "PROFESSOR")
    THEN <<404, "InvalidReviewer">>
  ELSE <<200, "OK">>

\* SubmitCheck without the test of the DRAFT status
SubmitCheck_AnyStatus(u, a, reviewerId) ==
  IF ~requireRole(u, {"STUDENT", "PROFESSOR", "HOD"}) THEN <<403, "Forbidden">>
  ELSE IF reviewerId = NULL THEN <<400, "ValidationError">>
  ELSE IF ~(Exists(a) /\ assignments[a].studentId = u) THEN <<404, "NotFound">>
  ELSE IF ~(reviewerId \in users /\ userRole[reviewerId] = "PROFESSOR")
    THEN <<404, "InvalidReviewer">>
  ELSE IF ~(u \in users /\ userDept[u] = userDept[reviewerId])
    THEN <<400, "InvalidReviewer">>
  ELSE <<200, "OK">>

\* the answer of submit's checks, "OK" when every check passes
SubmitCheck(u, a, reviewerId) ==
  IF ~requireRole(u, {"STUDENT", "PROFESSOR", "HOD"}) THEN <<403, "Forbidden">>
  ELSE IF reviewerId = NULL THEN <<400, "ValidationError">>
  ELSE IF ~(Exists(a) /\ assignments[a].studentId = u) THEN <<404, "NotFound">>
  ELSE IF assignments[a].status # "DRAFT" THEN <<400, "InvalidState">>
  ELSE IF ~(reviewerId \in users /\ userRole[reviewerId] = "PROFESSOR")
    THEN <<404, "InvalidReviewer">>
  ELSE IF ~(u \in users /\ userDept[u] = userDept[reviewerId])
    THEN <<400, "InvalidReviewer">>
  ELSE <<200, "OK">>

\* the three independent writes of submit; updOk, histOk, notifOk tell which succeed
SubmitWrites(a, reviewerId, updOk, histOk, notifOk) ==
  IF ~updOk
    THEN /\ last' = Reply("submit", 500, "Internal")
         /\ UNCHANGED << assignments, history, notifications >>
    ELSE /\ Room
         /\ assignments' = [assignments EXCEPT ![a] = SubmitUpdate(@, reviewerId)]
         /\ history' =
              IF histOk
                THEN Append(history,
                       HistoryRow(a, reviewerId, "SUBMITTED",
                         Some(<<"Assignment submitted for review to ">>
                                 \o userName[reviewerId]),
                         userName[reviewerId]))
                ELSE history
         /\ notifications' =
              IF notifOk
                THEN Append(notifications,
                       NotificationRow(reviewerId, a, "ASSIGNMENT_SUBMITTED"))
                ELSE notifications
         /\ last' = Reply("submit", 200, "OK")

Submit(u, a, reviewerId) ==
  LET chk == SubmitCheck(u, a, reviewerId) IN
  /\ IF chk[2] # "OK"
       THEN /\ last' = Reply("submit", chk[1], chk[2])
            /\ UNCHANGED << assignments, history, notifications >>
       ELSE \E updOk \in BOOLEAN, histOk \in BOOLEAN, notifOk \in BOOLEAN :
              SubmitWrites(a, reviewerId, updOk, histOk, notifOk)
  /\ UNCHANGED << otpStore, userDept, departments, users, flight, now >>

\* ----------------------------- POST /student/assignments/:id/resubmit
\* multipart bodies { description?, file? } of the resubmit endpoint
ResubmitInput(description, file) == [description |-> description, file |-> file]
ResubmitInputs == {ResubmitInput(None, "none"),
                   ResubmitInput(Some(<<SP,"v","2">>), "pdf"),
                   ResubmitInput(None, "txt")}

\* the assignment row after prisma.assignment.update in resubmit
ResubmitUpdate(row, description, file) ==
  [row EXCEPT !.status = "SUBMITTED",
              !.submittedAt = Some(now),
              !.description = IF description = None THEN @
                              ELSE IF Trim(description[1]) = << >> THEN None
                              ELSE Some(Trim(description[1])),
              !.filePath = IF file # "none" THEN "f2" ELSE @]

\* ResubmitCheck without the test of the REJECTED status
ResubmitCheck_AnyStatus(u, a, file) ==
  IF ~requireRole(u, {"STUDENT", "PROFESSOR", "HOD"}) THEN <<403, "Forbidden">>
  ELSE IF ~(Exists(a) /\ assignments[a].studentId = u) THEN <<404, "NotFound">>
  ELSE IF assignments[a].reviewerId = NULL THEN <<400, "NoReviewer">>
  ELSE IF file = "txt" THEN <<400, "ValidationError">>
  ELSE <<200, "OK">>

ResubmitCheck(u, a, file) ==
  IF ~requireRole(u, {"STUDENT", "PROFESSOR", "HOD"}) THEN <<403, "Forbidden">>
  ELSE IF ~(Exists(a) /\ assignments[a].studentId = u) THEN <<404, "NotFound">>
  ELSE IF assignments[a].status # "REJECTED" THEN <<400, "InvalidState">>
  ELSE IF assignments[a].reviewerId = NULL THEN <<400, "NoReviewer">>
  ELSE IF file = "txt" THEN <<400, "ValidationError">>
  ELSE <<200, "OK">>

\* the three independent writes of resubmit
ResubmitWrites(a, description, file, updOk, histOk, notifOk) ==
  IF ~updOk
    THEN /\ last' = Reply("resubmit", 500, "Internal")
         /\ UNCHANGED << assignments, history, notifications >>
    ELSE /\ Room
         /\ assignments' =
              [assignments EXCEPT ![a] = ResubmitUpdate(@, description, file)]
         /\ history' =
              IF histOk
                THEN Append(history,
                       HistoryRow(a, assignments[a].reviewerId, "SUBMITTED",
                         Some(<<"Assignment resubmitted">>),
                         <<"Student Resubmission">>))
                ELSE history
         /\ notifications' =
              IF notifOk
                THEN Append(notifications,
                       NotificationRow(assignments[a].reviewerId, a,
                                       "ASSIGNMENT_RESUBMITTED"))
                ELSE notifications
         /\ last' = Reply("resubmit", 200, "OK")

Resubmit(u, a, description, file) ==
  LET chk == ResubmitCheck(u, a, file) IN
  /\ IF chk[2] # "OK"
       THEN /\ last' = Reply("resubmit", chk[1], chk[2])
            /\ UNCHANGED << assignments, history, notifications >>
       ELSE \E updOk \in BOOLEAN, histOk \in BOOLEAN, notifOk \in BOOLEAN :
              ResubmitWrites(a, description, file, updOk, histOk, notifOk)
  /\ UNCHANGED << otpStore, userDept, departments, users, flight, now >>

\* ------------------------------------------------ prisma.$transaction
\* TransactionOk that commits when the update alone has succeeded
TransactionOk_UpdateOnly(updOk, histOk, notifOk) == updOk

\* prisma.$transaction([update, history create, notification create]) commits
\* only when each of its three statements succeeds
TransactionOk(updOk, histOk, notifOk) == updOk /\ histOk /\ notifOk

\* ------------------------------------------------------- the OTP store
\* a JavaScript truthiness test of an optional string
Truthy(opt) == opt # None /\ opt[1] # << >>

\* a ?? b on optional values
Coalesce(a, b) == IF a # None THEN a ELSE b

\* otpStore.set(key, { otp, expiresAt, ...remarks, ...signature })
OtpRecord(otp, remarks, signature) ==
  [otp |-> otp, expiresAt |-> now + OTP_EXPIRY_MS,
   remarks |-> IF Truthy(remarks) THEN remarks ELSE None,
   signature |-> IF Truthy(signature) THEN signature ELSE None]

\* OtpKey that names the approver only
OtpKey_ApproverOnly(assignmentId, professorId) == <<1, professorId>>

\* key = `${assignmentId}:${professorId}`
OtpKey(assignmentId, professorId) == <<assignmentId, professorId>>

\* OtpSet that leaves a record the key already has
OtpSet_KeepFirst(store, key, rec) ==
  IF store[key] = None THEN [store EXCEPT ![key] = Some(rec)] ELSE store

\* Map.prototype.set: the value of the key becomes rec
OtpSet(store, key, rec) == [store EXCEPT ![key] = Some(rec)]
OtpDelete(store, key) == [store EXCEPT ![key] = None]

\* PendingReviewBy without the status filter
PendingReviewBy_AnyStatus(a, professorId) ==
  /\ Exists(a)
  /\ assignments[a].reviewerId = professorId

\* prisma.assignment.findFirst({ id, reviewerId: professorId, status: 'SUBMITTED' })
PendingReviewBy(a, professorId) ==
  /\ Exists(a)
  /\ assignments[a].reviewerId = professorId
  /\ assignments[a].status = "SUBMITTED"

\* ------------- POST /professor/assignments/:id/approve/request-otp
\* RequestOtpCheck that looks the assignment up by id alone
RequestOtpCheck_AnyReviewer(u, a) ==
  IF ~requireRole(u, {"PROFESSOR"}) THEN <<403, "Forbidden">>
  ELSE IF ~Exists(a) THEN <<404, "NotFound">>
  ELSE <<200, "OK">>

RequestOtpCheck(u, a) ==
  IF ~requireRole(u, {"PROFESSOR"}) THEN <<403, "Forbidden">>
  ELSE IF ~PendingReviewBy(a, u) THEN <<404, "NotFound">>
  ELSE <<200, "OK">>

\* RequestOtpStore that keeps the record when the mail fails
RequestOtpStore_KeepRecord(key, body, otp, sent) ==
  /\ otpStore' = OtpSet(otpStore, key, OtpRecord(otp, body.remarks, body.signature))
  /\ last' = IF sent THEN Reply("requestOtp", 200, "OK")
                     ELSE Reply("requestOtp", 500, "Internal")

\* otpStore.set, then sendOtpEmail; the record is deleted when the mail fails
RequestOtpStore(key, body, otp, sent) ==
  IF ~sent
    THEN /\ otpStore' = OtpDelete(OtpSet(otpStore, key,
                                    OtpRecord(otp, body.remarks, body.signature)), key)
         /\ last' = Reply("requestOtp", 500, "Internal")
    ELSE /\ otpStore' = OtpSet(otpStore, key,
                               OtpRecord(otp, body.remarks, body.signature))
         /\ last' = Reply("requestOtp", 200, "OK")

RequestOtp(u, a, body) ==
  LET chk == RequestOtpCheck(u, a) IN
  /\ IF chk[2] # "OK"
       THEN /\ last' = Reply("requestOtp", chk[1], chk[2])
            /\ UNCHANGED otpStore
       ELSE \E otp \in generateOtp, sent \in BOOLEAN :
              RequestOtpStore(OtpKey(a, u), body, otp, sent)
  /\ UNCHANGED << assignments, history, notifications, userDept, departments, users, flight, now >>

\* ------------------ POST /professor/assignments/:id/approve/verify
\* OtpExpired that never finds a record expired
OtpExpired_Never(rec) == FALSE

\* Date.now() > stored.expiresAt
OtpExpired(rec) == now > rec.expiresAt

\* OtpMismatch that accepts every code
OtpMismatch_Never(rec, otp) == FALSE

\* stored.otp !== otp.trim()
OtpMismatch(rec, otp) == rec.otp # Trim(otp)

\* remarks ?? stored.remarks ?? ''
FinalRemarks(rec, remarks) == Coalesce(remarks, Coalesce(rec.remarks, Some(<< >>)))

\* signature ?? stored.signature ?? professorName (the token's email)
FinalSignature(rec, signature, u) ==
  Coalesce(signature, Coalesce(rec.signature, Some(userEmail[u])))

\* SignatureForHistory that stores the signature as given
SignatureForHistory_Raw(finalSignature, u) ==
  IF Truthy(finalSignature) THEN finalSignature[1] ELSE userName[u]

\* finalSignature ? signatureHash(finalSignature) : (professor?.name ?? professorName)
SignatureForHistory(finalSignature, u) ==
  IF Truthy(finalSignature) THEN signatureHash(finalSignature[1]) ELSE userName[u]

\* OtpAfterApprove that leaves the record in place
OtpAfterApprove_Keep(store, key) == store

\* the OTP store after the approval transaction has committed
OtpAfterApprove(store, key) == OtpDelete(store, key)

\* the OTP store after verify found the assignment already processed
OtpAfterStale(store, key) == OtpDelete(store, key)

\* the OTP store after verify found the record expired
OtpAfterExpired(store, key) == OtpDelete(store, key)

\* OtpAfterMismatch that consumes the record
OtpAfterMismatch_Delete(store, key) == OtpDelete(store, key)

\* the OTP store after verify found a different code
OtpAfterMismatch(store, key) == store

\* the assignment row after prisma.assignment.update in verify
ApproveUpdate(row) == [row EXCEPT !.status = "APPROVED"]

VerifyOtpCheck(u, a, otp) ==
  LET key == OtpKey(a, u) IN
  IF ~requireRole(u, {"PROFESSOR"}) THEN <<403, "Forbidden">>
  ELSE IF otp = << >> THEN <<400, "ValidationError">>
  ELSE IF otpStore[key] = None THEN <<400, "NoOtp">>
  ELSE IF OtpExpired(otpStore[key][1]) THEN <<400, "Expired">>
  ELSE IF OtpMismatch(otpStore[key][1], otp) THEN <<400, "InvalidCode">>
  ELSE IF ~PendingReviewBy(a, u) THEN <<404, "NotFound">>
  ELSE <<200, "OK">>

\* prisma.$transaction([update, history create, notification create]), then
\* delete, with the remarks and the signature the handler has settled on
ApproveWrites(u, a, finalRemarks, finalSignature, txOk) ==
  LET key == OtpKey(a, u) IN
  IF ~txOk
    THEN /\ last' = Reply("verifyOtp", 500, "Internal")
         /\ UNCHANGED << assignments, history, notifications, otpStore >>
    ELSE /\ Room
         /\ assignments' = [assignments EXCEPT ![a] = ApproveUpdate(@)]
         /\ history' = Append(history,
              HistoryRow(a, u, "APPROVED",
                IF Truthy(finalRemarks) THEN finalRemarks ELSE None,
                SignatureForHistory(finalSignature, u)))
         /\ notifications' = Append(notifications,
              NotificationRow(assignments[a].studentId, a, "ASSIGNMENT_APPROVED"))
         /\ otpStore' = OtpAfterApprove(otpStore, key)
         /\ last' = Reply("verifyOtp", 200, "OK")

ApproveTransaction(u, a, body, txOk) ==
  LET rec == otpStore[OtpKey(a, u)][1] IN
  ApproveWrites(u, a, FinalRemarks(rec, body.remarks),
                FinalSignature(rec, body.signature, u), txOk)

VerifyOtp(u, a, otp, body) ==
  LET chk == VerifyOtpCheck(u, a, otp)
      key == OtpKey(a, u) IN
  /\ IF chk[2] = "Expired"
       THEN /\ otpStore' = OtpAfterExpired(otpStore, key)
            /\ last' = Reply("verifyOtp", chk[1], chk[2])
            /\ UNCHANGED << assignments, history, notifications >>
     ELSE IF chk[2] = "InvalidCode"
       THEN /\ otpStore' = OtpAfterMismatch(otpStore, key)
            /\ last' = Reply("verifyOtp", chk[1], chk[2])
            /\ UNCHANGED << assignments, history, notifications >>
     ELSE IF chk[2] = "NotFound"
       THEN /\ otpStore' = OtpAfterStale(otpStore, key)
            /\ last' = Reply("verifyOtp", chk[1], chk[2])
            /\ UNCHANGED << assignments, history, notifications >>
     ELSE IF chk[2] # "OK"
       THEN /\ last' = Reply("verifyOtp", chk[1], chk[2])
            /\ UNCHANGED << assignments, history, notifications, otpStore >>
     ELSE \E updOk \in BOOLEAN, histOk \in BOOLEAN, notifOk \in BOOLEAN :
            ApproveTransaction(u, a, body, TransactionOk(updOk, histOk, notifOk))
  /\ UNCHANGED << userDept, departments, users, flight, now >>

\* ----------------------- POST /professor/assignments/:id/forward
\* ValidRecipient without the department filter
ValidRecipient_AnyDepartment(u, newReviewerId) ==
  /\ newReviewerId \in users
  /\ userRole[newReviewerId] \in {"PROFESSOR", "HOD"}

\* prisma.user.findFirst({ id: newReviewerId, departmentId, role in [PROFESSOR, HOD] })
ValidRecipient(u, newReviewerId) ==
  /\ newReviewerId \in users
  /\ userDept[newReviewerId] = userDept[u]
  /\ userRole[newReviewerId] \in {"PROFESSOR", "HOD"}

\* prisma.assignment.findFirst({ id, reviewerId, status in [SUBMITTED, FORWARDED] })
UnderReviewBy(a, professorId) ==
  /\ Exists(a)
  /\ assignments[a].reviewerId = professorId
  /\ assignments[a].status \in {"SUBMITTED", "FORWARDED"}

\* the assignment row after prisma.assignment.update in forward
ForwardUpdate(row, newReviewerId) ==
  [row EXCEPT !.reviewerId = newReviewerId, !.status = "FORWARDED"]

ForwardCheck(u, a, newReviewerId) ==
  IF ~requireRole(u, {"PROFESSOR", "HOD"}) THEN <<403, "Forbidden">>
  ELSE IF newReviewerId = NULL THEN <<400, "ValidationError">>
  ELSE IF newReviewerId = u THEN <<400, "SelfForward">>
  ELSE IF u \notin users THEN <<400, "NoDepartment">>
  ELSE IF ~ValidRecipient(u, newReviewerId) THEN <<400, "InvalidRecipient">>
  ELSE IF ~UnderReviewBy(a, u) THEN <<404, "NotFound">>
  ELSE <<200, "OK">>

\* typeof note === 'string' ? note.trim() : ''
ForwardNote(note) == IF note = None THEN << >> ELSE Trim(note[1])

\* prisma.$transaction([update, history create, notification create]) of forward
ForwardTransaction(u, a, newReviewerId, note, txOk) ==
  IF ~txOk
    THEN /\ last' = Reply("forward", 500, "Internal")
         /\ UNCHANGED << assignments, history, notifications >>
    ELSE /\ Room
         /\ assignments' = [assignments EXCEPT ![a] = ForwardUpdate(@, newReviewerId)]
         /\ history' = Append(history,
              HistoryRow(a, u, "FORWARDED",
                IF ForwardNote(note) # << >> THEN Some(ForwardNote(note)) ELSE None,
                userName[u]))
         /\ notifications' = Append(notifications,
              NotificationRow(newReviewerId, a, "ASSIGNMENT_FORWARDED"))
         /\ last' = Reply("forward", 200, "OK")

Forward(u, a, newReviewerId, note) ==
  LET chk == ForwardCheck(u, a, newReviewerId) IN
  /\ IF chk[2] # "OK"
       THEN /\ last' = Reply("forward", chk[1], chk[2])
            /\ UNCHANGED << assignments, history, notifications >>
       ELSE \E updOk \in BOOLEAN, histOk \in BOOLEAN, notifOk \in BOOLEAN :
              ForwardTransaction(u, a, newReviewerId, note,
                                 TransactionOk(updOk, histOk, notifOk))
  /\ UNCHANGED << otpStore, userDept, departments, users, flight, now >>

\* ------------------------------- GET /professor/forward-recipients
\* the letters of the names, in the order of their codes
Letters == << "A", "B", "C", "D", "E", "F", "G", "H", "I", "J", "K", "L", "M",
              "N", "O", "P", "Q", "R", "S", "T", "U", "V", "W", "X", "Y", "Z",
              "a", "b", "c", "d", "e", "f", "g", "h", "i", "j", "k", "l", "m",
              "n", "o", "p", "q", "r", "s", "t", "u", "v", "w", "x", "y", "z" >>
CharCode(c) == CHOOSE i \in 1 .. Len(Letters) : Letters[i] = c

\* s sorts before t, or is t: the comparison of orderBy name 'asc'
RECURSIVE NameLeq(_, _)
NameLeq(s, t) ==
  IF s = << >> THEN TRUE
  ELSE IF t = << >> THEN FALSE
  ELSE IF Head(s) # Head(t) THEN CharCode(Head(s)) < CharCode(Head(t))
  ELSE NameLeq(Tail(s), Tail(t))

\* the orders in which the Role enum may declare the two reviewing roles
RoleOrders == { << "PROFESSOR", "HOD" >>, << "HOD", "PROFESSOR" >> }
RoleRank(order, role) == CHOOSE i \in 1 .. Len(order) : order[i] = role

\* orderBy: [{ role: 'asc' }, { name: 'asc' }]
RecipientLeq(order, s, t) ==
  \/ RoleRank(order, userRole[s]) < RoleRank(order, userRole[t])
  \/ /\ userRole[s] = userRole[t]
     /\ NameLeq(userName[s], userName[t])

\* where: { departmentId: user.departmentId, id: { not: userId },
\*          role: { in: ['PROFESSOR', 'HOD'] } }
RecipientRows(u) ==
  {t \in users : /\ userDept[t] = userDept[u]
                 /\ t # u
                 /\ userRole[t] \in {"PROFESSOR", "HOD"}}

\* prisma.user.findMany: the rows of the filter in the order of orderBy
recipients(u, order) ==
  LET rows == RecipientRows(u)
      n == Cardinality(rows) IN
  CHOOSE l \in [1 .. n -> rows] :
    /\ \A t \in rows : \E i \in 1 .. n : l[i] = t
    /\ \A i \in 1 .. n, j \in 1 .. n : i < j => RecipientLeq(order, l[i], l[j])

ForwardRecipientsCheck(u) ==
  IF ~requireRole(u, {"PROFESSOR", "HOD"}) THEN <<403, "Forbidden">>
  ELSE IF u \notin users THEN <<400, "NoDepartment">>
  ELSE <<200, "OK">>

\* the handler reads and writes nothing; its answer carries recipients(u, order)
ForwardRecipients(u) ==
  LET chk == ForwardRecipientsCheck(u) IN
  /\ IF chk[2] # "OK"
       THEN last' = Reply("forwardRecipients", chk[1], chk[2])
       ELSE \E findOk \in BOOLEAN :
              IF findOk
                THEN last' = Reply("forwardRecipients", 200, "OK")
                ELSE last' = Reply("forwardRecipients", 500, "Internal")
  /\ UNCHANGED << assignments, history, notifications, otpStore, userDept, now,
                  departments, users, flight >>

\* ------------------------ POST /professor/assignments/:id/reject
MIN_REMARK == 10

\* TrimmedRemark that keeps the white space around the remark
TrimmedRemark_Untrimmed(remark) == IF remark = None THEN << >> ELSE remark[1]

\* typeof remark === 'string' ? remark.trim() : ''
TrimmedRemark(remark) == IF remark = None THEN << >> ELSE Trim(remark[1])

\* RejectUpdate that keeps the reviewer
RejectUpdate_KeepReviewer(row) == [row EXCEPT !.status = "REJECTED"]

\* the assignment row after prisma.assignment.update in reject
RejectUpdate(row) == [row EXCEPT !.status = "REJECTED", !.reviewerId = NULL]

\* RejectCheck that also accepts a FORWARDED assignment
RejectCheck_AnyStatus(u, a, remark) ==
  IF ~requireRole(u, {"PROFESSOR"}) THEN <<403, "Forbidden">>
  ELSE IF Len(TrimmedRemark(remark)) < MIN_REMARK THEN <<400, "ValidationError">>
  ELSE IF ~UnderReviewBy(a, u) THEN <<404, "NotFound">>
  ELSE <<200, "OK">>

RejectCheck(u, a, remark) ==
  IF ~requireRole(u, {"PROFESSOR"}) THEN <<403, "Forbidden">>
  ELSE IF Len(TrimmedRemark(remark)) < MIN_REMARK THEN <<400, "ValidationError">>
  ELSE IF ~PendingReviewBy(a, u) THEN <<404, "NotFound">>
  ELSE <<200, "OK">>

\* prisma.$transaction([update, history create, notification create]) of reject
RejectTransaction(u, a, remark, txOk) ==
  IF ~txOk
    THEN /\ last' = Reply("reject", 500, "Internal")
         /\ UNCHANGED << assignments, history, notifications >>
    ELSE /\ Room
         /\ assignments' = [assignments EXCEPT ![a] = RejectUpdate(@)]
         /\ history' = Append(history,
              HistoryRow(a, u, "REJECTED", Some(TrimmedRemark(remark)), userName[u]))
         /\ notifications' = Append(notifications,
              NotificationRow(assignments[a].studentId, a, "ASSIGNMENT_REJECTED"))
         /\ last' = Reply("reject", 200, "OK")

Reject(u, a, remark) ==
  LET chk == RejectCheck(u, a, remark) IN
  /\ IF chk[2] # "OK"
       THEN /\ last' = Reply("reject", chk[1], chk[2])
            /\ UNCHANGED << assignments, history, notifications >>
       ELSE \E updOk \in BOOLEAN, histOk \in BOOLEAN, notifOk \in BOOLEAN :
              RejectTransaction(u, a, remark, TransactionOk(updOk, histOk, notifOk))
  /\ UNCHANGED << otpStore, userDept, departments, users, flight, now >>

\* --------------------- PATCH /professor/notifications/:id/read
\* MarkReadUpdate without the filter on the recipient
MarkReadUpdate_AnyUser(rows, notificationId, userId) ==
  [n \in 1 .. Len(rows) |->
     IF n = notificationId
       THEN [rows[n] EXCEPT !.read = TRUE]
       ELSE rows[n]]

\* prisma.notification.updateMany({ where: { id, userId }, data: { read: true } })
MarkReadUpdate(rows, notificationId, userId) ==
  [n \in 1 .. Len(rows) |->
     IF n = notificationId /\ rows[n].userId = userId
       THEN [rows[n] EXCEPT !.read = TRUE]
       ELSE rows[n]]

MarkRead(u, notificationId) ==
  /\ IF ~requireRole(u, {"PROFESSOR"})
       THEN /\ last' = Reply("markRead", 403, "Forbidden")
            /\ UNCHANGED notifications
       ELSE \E updOk \in BOOLEAN :
              IF updOk
                THEN /\ notifications' =
                          MarkReadUpdate(notifications, notificationId, u)
                     /\ last' = Reply("markRead", 200, "OK")
                ELSE /\ last' = Reply("markRead", 500, "Internal")
                     /\ UNCHANGED notifications
  /\ UNCHANGED << assignments, history, otpStore, userDept, departments, users, flight, now >>

\* ------------------------------------ PUT /admin/users/:id/update
\* rows of the Department table
Departments == {1, 2}
\* departmentId of a request body: missing, a row at the start, or the id the
\* next created department takes
DeptInputs == {NULL} \cup Departments \cup {3}
\* users an update request names; the body repeats their name, email and phone
UpdateTargets == {2}
\* role of the token of an admin request
AdminCallers == {"ADMIN", "PROFESSOR"}

\* req.admin is set only for a token whose role is ADMIN
IsAdmin(role) == role = "ADMIN"

\* prisma.department.findUnique({ where: { id } })
DeptExists(d) == d \in 1 .. Len(departments) /\ departments[d] # None

UpdateUserCheck(role, id, departmentId) ==
  IF ~IsAdmin(role) THEN <<401, "Unauthorized">>
  ELSE IF departmentId = NULL THEN <<400, "ValidationError">>
  ELSE IF id \notin users THEN <<404, "NotFound">>
  ELSE IF ~DeptExists(departmentId) THEN <<404, "InvalidDepartment">>
  ELSE <<200, "OK">>

UpdateUser(role, id, departmentId) ==
  LET chk == UpdateUserCheck(role, id, departmentId) IN
  /\ IF chk[2] # "OK"
       THEN /\ last' = Reply("updateUser", chk[1], chk[2])
            /\ UNCHANGED userDept
       ELSE \E updOk \in BOOLEAN :
              IF updOk
                THEN /\ userDept' = [userDept EXCEPT ![id] = departmentId]
                     /\ last' = Reply("updateUser", 200, "OK")
                ELSE /\ last' = Reply("updateUser", 500, "Internal")
                     /\ UNCHANGED userDept
  /\ UNCHANGED << assignments, history, notifications, otpStore, now,
                  departments, users, flight >>

\* ------------------------------------------ POST /admin/users/create
\* tokens that call the administrator's routes, by role
TokenRoles == {"ADMIN", "STUDENT", "PROFESSOR", "HOD"}

\* /^[^\s@]+@[^\s@]+\.[^\s@]+$/.test(email)
emailRegex(email) ==
  \E i \in 2 .. Len(email) :
    /\ email[i] = "@"
    /\ \A k \in (1 .. Len(email)) \ {i} : email[k] \notin {"@", SP}
    /\ \E j \in i + 2 .. Len(email) - 1 : email[j] = "."

\* request bodies { name, email, phone, departmentId, role, password } that ask
\* for the account of the student Fay; name, phone and password are given
UserBody(email, role, departmentId) ==
  [email |-> email, role |-> role, departmentId |-> departmentId]
UserBodies ==
  { UserBody(userEmail[MaxUsers], "STUDENT", d) : d \in DeptInputs }
    \cup { UserBody(<<"f","@","u">>, "STUDENT", 1),
           UserBody(userEmail[MaxUsers], "ADMIN", 1) }

\* prisma.user.findUnique({ where: { email } })
UserByEmail(email) == \E u \in users : userEmail[u] = email

CreateUserCheck(role, body) ==
  IF ~IsAdmin(role) THEN <<401, "Unauthorized">>
  ELSE IF body.departmentId = NULL THEN <<400, "ValidationError">>
  ELSE IF ~emailRegex(body.email) THEN <<400, "InvalidEmail">>
  ELSE IF body.role \notin {"STUDENT", "PROFESSOR", "HOD"} THEN <<400, "InvalidRole">>
  ELSE IF UserByEmail(body.email) THEN <<409, "Conflict">>
  ELSE IF ~DeptExists(body.departmentId) THEN <<404, "InvalidDepartment">>
  ELSE <<201, "OK">>

\* prisma.user.create: the new row takes the next id
CreateUser(role, body) ==
  LET chk == CreateUserCheck(role, body) IN
  /\ IF chk[2] # "OK"
       THEN /\ last' = Reply("createUser", chk[1], chk[2])
            /\ UNCHANGED << users, userDept >>
       ELSE \E createOk \in BOOLEAN :
              IF createOk
                THEN /\ Len(userDept) < MaxUsers
                     /\ users' = users \cup {Len(userDept) + 1}
                     /\ userDept' = Append(userDept, body.departmentId)
                     /\ last' = Reply("createUser", 201, "OK")
                ELSE /\ last' = Reply("createUser", 500, "Internal")
                     /\ UNCHANGED << users, userDept >>
  /\ UNCHANGED << assignments, history, notifications, otpStore, now,
                  departments, flight >>

\* ---------------------------------------------- DELETE /admin/users/:id
\* pendingAssignments that counts the assignments under review
pendingAssignments_UnderReview(id) ==
  Cardinality({a \in 1 .. Len(assignments) :
                 /\ assignments[a].studentId = id
                 /\ assignments[a].status \in {"SUBMITTED", "FORWARDED"}})

\* prisma.assignment.count({ where: { studentId: id, status: 'PENDING' } })
pendingAssignments(id) ==
  Cardinality({a \in 1 .. Len(assignments) :
                 /\ assignments[a].studentId = id
                 /\ assignments[a].status = "PENDING"})

DeleteUserCheck(role, id) ==
  IF ~IsAdmin(role) THEN <<401, "Unauthorized">>
  ELSE IF id \notin users THEN <<404, "NotFound">>
  ELSE IF userRole[id] = "STUDENT" /\ pendingAssignments(id) > 0
    THEN <<400, "PendingAssignments">>
  ELSE <<200, "OK">>

\* prisma.user.delete removes the user's row; the handler touches no other
\* table, and the rows that name the user keep naming it
DeleteUser(role, id) ==
  LET chk == DeleteUserCheck(role, id) IN
  /\ IF chk[2] # "OK"
       THEN /\ last' = Reply("deleteUser", chk[1], chk[2])
            /\ UNCHANGED users
       ELSE \E deleteOk \in BOOLEAN :
              IF deleteOk
                THEN /\ users' = users \ {id}
                     /\ last' = Reply("deleteUser", 200, "OK")
                ELSE /\ last' = Reply("deleteUser", 500, "Internal")
                     /\ UNCHANGED users
  /\ UNCHANGED << assignments, history, notifications, otpStore, userDept, now,
                  departments, flight >>

\* -------------------------------------- POST /admin/departments/create
\* String(type).toUpperCase()
normalizedType(type) ==
  CASE type = "ug" -> "UG"
    [] type = "pg" -> "PG"
    [] type = "law" -> "LAW"
    [] OTHER -> type

\* request bodies { name, type, address } of the department routes: one
\* without name, one of an unknown type, a new name and the name of a row
DepartmentBodies ==
  { DepartmentRow("", "UG", "a3"), DepartmentRow("Math", "law", "a3"),
    DepartmentRow("Math", "pg", "a3"), DepartmentRow("CS", "UG", "a1") }

\* the checks of the body that create and update share
DepartmentBodyCheck(body) ==
  IF body.name = "" \/ body.type = "" \/ body.address = ""
    THEN <<400, "ValidationError">>
  ELSE IF normalizedType(body.type) \notin {"UG", "PG", "RESEARCH"}
    THEN <<400, "InvalidType">>
  ELSE <<200, "OK">>

\* prisma.department.findUnique({ where: { name } })
DeptByName(name) ==
  \E d \in 1 .. Len(departments) :
    departments[d] # None /\ departments[d][1].name = name

\* the row that create and update write
DepartmentData(body) ==
  DepartmentRow(body.name, normalizedType(body.type), body.address)

CreateDepartmentCheck(role, body) ==
  IF ~IsAdmin(role) THEN <<401, "Unauthorized">>
  ELSE IF DepartmentBodyCheck(body)[2] # "OK" THEN DepartmentBodyCheck(body)
  ELSE IF DeptByName(body.name) THEN <<409, "Conflict">>
  ELSE <<201, "OK">>

CreateDepartment(role, body) ==
  LET chk == CreateDepartmentCheck(role, body) IN
  /\ IF chk[2] # "OK"
       THEN /\ last' = Reply("createDepartment", chk[1], chk[2])
            /\ UNCHANGED departments
       ELSE \E createOk \in BOOLEAN :
              IF createOk
                THEN /\ Len(departments) < MaxDepartments
                     /\ departments' = Append(departments, Some(DepartmentData(body)))
                     /\ last' = Reply("createDepartment", 201, "OK")
                ELSE /\ last' = Reply("createDepartment", 500, "Internal")
                     /\ UNCHANGED departments
  /\ UNCHANGED << assignments, history, notifications, otpStore, userDept, now,
                  users, flight >>

\* ------------------------------------ PUT /admin/departments/:id/update
\* the handler never looks at req.admin: every valid token passes
UpdateDepartmentCheck(role, id, body) ==
  IF DepartmentBodyCheck(body)[2] # "OK" THEN DepartmentBodyCheck(body)
  ELSE IF ~DeptExists(id) THEN <<404, "NotFound">>
  ELSE IF body.name # departments[id][1].name /\ DeptByName(body.name)
    THEN <<409, "Conflict">>
  ELSE <<200, "OK">>

UpdateDepartment(role, id, body) ==
  LET chk == UpdateDepartmentCheck(role, id, body) IN
  /\ IF chk[2] # "OK"
       THEN /\ last' = Reply("updateDepartment", chk[1], chk[2])
            /\ UNCHANGED departments
       ELSE \E updOk \in BOOLEAN :
              IF updOk
                THEN /\ departments' =
                          [departments EXCEPT ![id] = Some(DepartmentData(body))]
                     /\ last' = Reply("updateDepartment", 200, "OK")
                ELSE /\ last' = Reply("updateDepartment", 500, "Internal")
                     /\ UNCHANGED departments
  /\ UNCHANGED << assignments, history, notifications, otpStore, userDept, now,
                  users, flight >>

\* -------------------------------------- DELETE /admin/departments/:id
\* prisma.user.count({ where: { departmentId: id } })
userCount(id) == Cardinality({u \in users : userDept[u] = id})

\* DeleteDepartmentCheck without the count of the department's users
DeleteDepartmentCheck_AnyUsers(role, id) ==
  IF ~DeptExists(id) THEN <<404, "NotFound">>
  ELSE <<200, "OK">>

\* the handler never looks at req.admin: every valid token passes
DeleteDepartmentCheck(role, id) ==
  IF ~DeptExists(id) THEN <<404, "NotFound">>
  ELSE IF userCount(id) > 0 THEN <<400, "HasUsers">>
  ELSE <<200, "OK">>

DeleteDepartment(role, id) ==
  LET chk == DeleteDepartmentCheck(role, id) IN
  /\ IF chk[2] # "OK"
       THEN /\ last' = Reply("deleteDepartment", chk[1], chk[2])
            /\ UNCHANGED departments
       ELSE \E deleteOk \in BOOLEAN :
              IF deleteOk
                THEN /\ departments' = [departments EXCEPT ![id] = None]
                     /\ last' = Reply("deleteDepartment", 200, "OK")
                ELSE /\ last' = Reply("deleteDepartment", 500, "Internal")
                     /\ UNCHANGED departments
  /\ UNCHANGED << assignments, history, notifications, otpStore, userDept, now,
                  users, flight >>

\* ------------------------------------------------------- specification
Next ==
  \/ Tick
  \/ \E u \in Uploaders, hasFile \in BOOLEAN : Upload(u, hasFile)
  \/ \E u \in StudentCallers, a \in AssignmentIds, r \in ReviewerInputs : Submit(u, a, r)
  \/ \E u \in StudentCallers, a \in AssignmentIds, in \in ResubmitInputs :
       Resubmit(u, a, in.description, in.file)
  \/ \E u \in Users, a \in AssignmentIds, body \in RequestBodies : RequestOtp(u, a, body)
  \/ \E u \in Users, a \in AssignmentIds, in \in VerifyInputs :
       VerifyOtp(u, a, in.otp, in.body)
  \/ \E u \in Users, a \in AssignmentIds, r \in ReviewerInputs, note \in NoteInputs :
       Forward(u, a, r, note)
  \/ \E u \in Users, a \in AssignmentIds, remark \in RemarkInputs : Reject(u, a, remark)
  \/ \E u \in Users, n \in NotificationIds : MarkRead(u, n)

Spec == Init /\ [][Next]_vars

\* ------------------- the handlers together with the administrator's update
DeptNext ==
  \/ Next
  \/ \E role \in AdminCallers, id \in UpdateTargets, d \in DeptInputs :
       UpdateUser(role, id, d)

SpecDept == Init /\ [][DeptNext]_vars

\* -------------------- forwarding while the administrator edits the users
RecipientEdits == {2, 3, 4}
RecipientDeletes == {3}

\* one student submits to professor 2; every user forwards and lists the
\* recipients; the administrator moves reviewers between the departments and
\* deletes the HOD
RecipientsNext ==
  \/ Upload(1, TRUE)
  \/ \E a \in AssignmentIds : Submit(1, a, 2)
  \/ \E u \in Users, a \in AssignmentIds, r \in ReviewerInputs, note \in NoteInputs :
       Forward(u, a, r, note)
  \/ \E u \in Users : ForwardRecipients(u)
  \/ \E id \in RecipientEdits, d \in Departments : UpdateUser("ADMIN", id, d)
  \/ \E id \in RecipientDeletes : DeleteUser("ADMIN", id)

SpecRecipients == Init /\ [][RecipientsNext]_vars

\* --------------------------------------------- the administrator's routes
\* ids an administrator request names: rows and one that is no row
DeptIds == 1 .. MaxDepartments + 1
UserIds == {2, MaxUsers, MaxUsers + 1}

AdminNext ==
  \/ \E role \in TokenRoles, body \in DepartmentBodies : CreateDepartment(role, body)
  \/ \E role \in TokenRoles, id \in DeptIds, body \in DepartmentBodies :
       UpdateDepartment(role, id, body)
  \/ \E role \in TokenRoles, id \in DeptIds : DeleteDepartment(role, id)
  \/ \E role \in TokenRoles, body \in UserBodies : CreateUser(role, body)
  \/ \E role \in TokenRoles, id \in UserIds, d \in DeptInputs : UpdateUser(role, id, d)
  \/ \E role \in TokenRoles, id \in UserIds : DeleteUser(role, id)

SpecAdmin == Init /\ [][AdminNext]_vars

\* ---------------------------- two assignments under review at a time
PairStudent == 1
PairReviewer == 2

\* the state after student 1 has uploaded two assignments and submitted both
\* to professor 2
PairInit ==
  /\ assignments = [a \in 1 .. 2 |->
                      [NewAssignment(PairStudent) EXCEPT
                         !.status = "SUBMITTED", !.reviewerId = PairReviewer,
                         !.submittedAt = Some(0)]]
  /\ history = [a \in 1 .. 2 |->
                  HistoryRow(a, PairReviewer, "SUBMITTED",
                    Some(<<"Assignment submitted for review to ">>
                            \o userName[PairReviewer]),
                    userName[PairReviewer])]
  /\ notifications = [a \in 1 .. 2 |->
                        NotificationRow(PairReviewer, a, "ASSIGNMENT_SUBMITTED")]
  /\ otpStore = [k \in OtpKeys |-> None]
  /\ userDept = InitDept
  /\ now = 0
  /\ last = Reply("submit", 200, "OK")
  /\ departments = InitDepartments
  /\ users = Users
  /\ flight = << >>

PairApprovers == {2, 4}

\* the handlers that act on submitted assignments, called by the owner, the
\* reviewer and a professor of another department
PairNext ==
  \/ Tick
  \/ \E a \in AssignmentIds : Submit(PairStudent, a, PairReviewer)
  \/ \E a \in AssignmentIds : Resubmit(PairStudent, a, None, "none")
  \/ \E u \in PairApprovers, a \in AssignmentIds : RequestOtp(u, a, Body(None, None))
  \/ \E u \in PairApprovers, a \in AssignmentIds, in \in VerifyInputs :
       VerifyOtp(u, a, in.otp, in.body)
  \/ \E a \in AssignmentIds, note \in NoteInputs : Forward(PairReviewer, a, 3, note)
  \/ \E a \in AssignmentIds, remark \in RemarkInputs : Reject(PairReviewer, a, remark)

SpecPair == PairInit /\ [][PairNext]_vars

\* ------------------------------------- requests that overlap in time
\* Each await of a handler lets other requests run. A request that has passed
\* its checks waits in flight for its next database call: pc is "find" before
\* the lookup of the assignment, "commit" before the transaction, "done" after
\* the answer.
MaxFlights == 2

FlightRow(op, u, a, pc, arg) == [op |-> op, u |-> u, a |-> a, pc |-> pc, arg |-> arg]
Flights(op, pc) == {i \in 1 .. Len(flight) : flight[i].op = op /\ flight[i].pc = pc}
Landed(i) == [flight EXCEPT ![i].pc = "done"]

\* verify up to its first await: the checks of the body and of the stored code
VerifyBegin(u, a, otp, body) ==
  LET key == OtpKey(a, u)
      chk == IF ~requireRole(u, {"PROFESSOR"}) THEN <<403, "Forbidden">>
             ELSE IF otp = << >> THEN <<400, "ValidationError">>
             ELSE IF otpStore[key] = None THEN <<400, "NoOtp">>
             ELSE IF OtpExpired(otpStore[key][1]) THEN <<400, "Expired">>
             ELSE IF OtpMismatch(otpStore[key][1], otp) THEN <<400, "InvalidCode">>
             ELSE <<200, "OK">> IN
  /\ IF chk[2] = "Expired"
       THEN /\ otpStore' = OtpAfterExpired(otpStore, key)
            /\ last' = Reply("verifyOtp", chk[1], chk[2])
            /\ UNCHANGED flight
     ELSE IF chk[2] = "InvalidCode"
       THEN /\ otpStore' = OtpAfterMismatch(otpStore, key)
            /\ last' = Reply("verifyOtp", chk[1], chk[2])
            /\ UNCHANGED flight
     ELSE IF chk[2] # "OK"
       THEN /\ last' = Reply("verifyOtp", chk[1], chk[2])
            /\ UNCHANGED << otpStore, flight >>
     ELSE /\ Len(flight) < MaxFlights
          /\ flight' = Append(flight,
               FlightRow("verifyOtp", u, a, "find",
                 [remarks |-> FinalRemarks(otpStore[key][1], body.remarks),
                  signature |-> FinalSignature(otpStore[key][1], body.signature, u)]))
          /\ UNCHANGED << otpStore, last >>
  /\ UNCHANGED << assignments, history, notifications, userDept, now,
                  departments, users >>

\* verify's prisma.assignment.findFirst and the answer when it finds nothing
VerifyFind(i) ==
  LET r == flight[i] IN
  /\ i \in Flights("verifyOtp", "find")
  /\ IF PendingReviewBy(r.a, r.u)
       THEN /\ flight' = [flight EXCEPT ![i].pc = "commit"]
            /\ UNCHANGED << otpStore, last >>
       ELSE /\ otpStore' = OtpAfterStale(otpStore, OtpKey(r.a, r.u))
            /\ last' = Reply("verifyOtp", 404, "NotFound")
            /\ flight' = Landed(i)
  /\ UNCHANGED << assignments, history, notifications, userDept, now,
                  departments, users >>

\* verify's transaction, the removal of the record and the answer
VerifyCommit(i) ==
  LET r == flight[i] IN
  /\ i \in Flights("verifyOtp", "commit")
  /\ \E updOk \in BOOLEAN, histOk \in BOOLEAN, notifOk \in BOOLEAN :
       ApproveWrites(r.u, r.a, r.arg.remarks, r.arg.signature,
                     TransactionOk(updOk, histOk, notifOk))
  /\ flight' = Landed(i)
  /\ UNCHANGED << userDept, now, departments, users >>

\* reject up to the result of its prisma.assignment.findFirst
RejectFind(u, a, remark) ==
  LET chk == RejectCheck(u, a, remark) IN
  /\ IF chk[2] # "OK"
       THEN /\ last' = Reply("reject", chk[1], chk[2])
            /\ UNCHANGED flight
       ELSE /\ Len(flight) < MaxFlights
            /\ flight' = Append(flight, FlightRow("reject", u, a, "commit", remark))
            /\ UNCHANGED last
  /\ UNCHANGED << assignments, history, notifications, otpStore, userDept, now,
                  departments, users >>

\* reject's transaction and the answer
RejectCommit(i) ==
  LET r == flight[i] IN
  /\ i \in Flights("reject", "commit")
  /\ \E updOk \in BOOLEAN, histOk \in BOOLEAN, notifOk \in BOOLEAN :
       RejectTransaction(r.u, r.a, r.arg, TransactionOk(updOk, histOk, notifOk))
  /\ flight' = Landed(i)
  /\ UNCHANGED << otpStore, userDept, now, departments, users >>

\* forward up to the result of its prisma.assignment.findFirst
ForwardFind(u, a, newReviewerId, note) ==
  LET chk == ForwardCheck(u, a, newReviewerId) IN
  /\ IF chk[2] # "OK"
       THEN /\ last' = Reply("forward", chk[1], chk[2])
            /\ UNCHANGED flight
       ELSE /\ Len(flight) < MaxFlights
            /\ flight' = Append(flight,
                 FlightRow("forward", u, a, "commit",
                           [newReviewerId |-> newReviewerId, note |-> note]))
            /\ UNCHANGED last
  /\ UNCHANGED << assignments, history, notifications, otpStore, userDept, now,
                  departments, users >>

\* forward's transaction and the answer
ForwardCommit(i) ==
  LET r == flight[i] IN
  /\ i \in Flights("forward", "commit")
  /\ \E updOk \in BOOLEAN, histOk \in BOOLEAN, notifOk \in BOOLEAN :
       ForwardTransaction(r.u, r.a, r.arg.newReviewerId, r.arg.note,
                          TransactionOk(updOk, histOk, notifOk))
  /\ flight' = Landed(i)
  /\ UNCHANGED << otpStore, userDept, now, departments, users >>

\* the state after student 1 has uploaded an assignment and submitted it to
\* professor 2, and professor 2 has requested a code
RaceInit ==
  /\ assignments = << [NewAssignment(1) EXCEPT !.status = "SUBMITTED",
                                               !.reviewerId = 2,
                                               !.submittedAt = Some(0)] >>
  /\ history = << HistoryRow(1, 2, "SUBMITTED",
                     Some(<<"Assignment submitted for review to ">> \o userName[2]),
                     userName[2]) >>
  /\ notifications = << NotificationRow(2, 1, "ASSIGNMENT_SUBMITTED") >>
  /\ now = 0
  /\ otpStore = [k \in OtpKeys |->
                   IF k = OtpKey(1, 2)
                     THEN Some([otp |-> Otp1, expiresAt |-> OTP_EXPIRY_MS,
                                remarks |-> None, signature |-> None])
                     ELSE None]
  /\ userDept = InitDept
  /\ last = Reply("requestOtp", 200, "OK")
  /\ departments = InitDepartments
  /\ users = Users
  /\ flight = << >>

RaceReviewers == {2, 3}

RaceNext ==
  \/ Tick
  \/ \E u \in RaceReviewers, a \in AssignmentIds, in \in VerifyInputs :
       VerifyBegin(u, a, in.otp, in.body)
  \/ \E i \in 1 .. MaxFlights : VerifyFind(i)
  \/ \E i \in 1 .. MaxFlights : VerifyCommit(i)
  \/ \E u \in RaceReviewers, a \in AssignmentIds, remark \in RemarkInputs :
       RejectFind(u, a, remark)
  \/ \E i \in 1 .. MaxFlights : RejectCommit(i)
  \/ \E u \in RaceReviewers, a \in AssignmentIds, r \in ReviewerInputs,
        note \in NoteInputs : ForwardFind(u, a, r, note)
  \/ \E i \in 1 .. MaxFlights : ForwardCommit(i)

SpecRace == RaceInit /\ [][RaceNext]_vars

\* ------------------------------------- deletion of users who own assignments
DeleteRoles == {"ADMIN", "STUDENT"}
\* ids a deletion may name: the uploader and an id that names no user
DeleteIds == Uploaders \cup {MaxUsers + 1}

DeleteNext ==
  \/ Next
  \/ \E u \in Uploaders, files \in BulkCounts, allPdf \in BOOLEAN,
        category \in BulkCategories : BulkUpload(u, files, allPdf, category)
  \/ \E role \in DeleteRoles, id \in DeleteIds : DeleteUser(role, id)

SpecDelete == Init /\ [][DeleteNext]_vars

\* ==================================================================== claims
Rows == 1 .. Len(assignments)

\* C1: submit succeeds only for an existing DRAFT assignment owned by the caller,
\* and then sets status SUBMITTED, the given reviewer and submittedAt; when the
\* assignment is absent or not owned the answer is NotFound, when it is not
\* DRAFT the answer is InvalidState, and in both cases the assignment, the
\* history and the notifications stay as they were.
C1_SubmitContract ==
  [][last'.op = "submit" =>
     \A u \in StudentCallers, a \in AssignmentIds, r \in ReviewerInputs :
       Submit(u, a, r) =>
         LET owned == Exists(a) /\ assignments[a].studentId = u IN
         /\ last'.status = 200 =>
              /\ owned
              /\ assignments[a].status = "DRAFT"
              /\ assignments'[a].status = "SUBMITTED"
              /\ assignments'[a].reviewerId = r
              /\ assignments'[a].submittedAt = Some(now)
         /\ ~owned =>
              /\ r # NULL => last' = Reply("submit", 404, "NotFound")
              /\ UNCHANGED << assignments, history, notifications >>
         /\ (owned /\ assignments[a].status # "DRAFT") =>
              /\ r # NULL => last' = Reply("submit", 400, "InvalidState")
              /\ UNCHANGED << assignments, history, notifications >>]_vars

\* a submit has succeeded and the assignment is SUBMITTED with its reviewer
C1_Witness ==
  /\ last = Reply("submit", 200, "OK")
  /\ \E a \in Rows : /\ assignments[a].status = "SUBMITTED"
                     /\ assignments[a].reviewerId = 2
                     /\ assignments[a].submittedAt # None

\* C2: an OTP verifies at most once. A verify that succeeds or answers Expired
\* leaves no record under its key; a verify that finds no record under its key
\* fails; and a record appears under a key only through a successful
\* requestApprovalOtp, so until then every later verify for the key fails.
C2_OtpSingleUse ==
  [][/\ last'.op = "verifyOtp" =>
          \A u \in Users, a \in AssignmentIds, in \in VerifyInputs :
            /\ (last'.err \in {"OK", "Expired"} /\ VerifyOtp(u, a, in.otp, in.body)) =>
                 otpStore'[<<a, u>>] = None
            /\ (otpStore[<<a, u>>] = None /\ VerifyOtp(u, a, in.otp, in.body)) =>
                 /\ last'.status \in {400, 403}
                 /\ last'.err \in {"NoOtp", "ValidationError", "Forbidden"}
                 /\ UNCHANGED << assignments, history, notifications, otpStore >>
     /\ \A k \in OtpKeys :
          (otpStore[k] = None /\ otpStore'[k] # None) =>
             last' = Reply("requestOtp", 200, "OK")]_vars

\* a verify has succeeded and consumed the record of the approver's key
C2_Witness ==
  /\ last = Reply("verifyOtp", 200, "OK")
  /\ \E a \in Rows : /\ assignments[a].status = "APPROVED"
                     /\ otpStore[<<a, assignments[a].reviewerId>>] = None

\* C3: an assignment becomes APPROVED only in a successful verify step made by
\* its current reviewer p, with a record stored under the key (assignment, p)
\* that is unexpired and whose code equals the submitted code; the step touches
\* no other assignment and no other key of the OTP store; and a record comes to
\* be stored under a key only by a successful requestApprovalOtp of that key's
\* approver for that key's assignment.
C3_ApprovedOnlyByOtp ==
  [][/\ \A k \in OtpKeys :
          (otpStore[k] = None /\ otpStore'[k] # None) =>
             /\ last' = Reply("requestOtp", 200, "OK")
             /\ \A u \in Users, a \in AssignmentIds, body \in RequestBodies :
                  RequestOtp(u, a, body) => k = <<a, u>>
     /\ \A a \in Rows :
       (assignments[a].status # "APPROVED" /\ assignments'[a].status = "APPROVED") =>
         LET p == assignments[a].reviewerId
             key == <<a, p>> IN
         /\ last' = Reply("verifyOtp", 200, "OK")
         /\ p \in Users
         /\ assignments[a].status = "SUBMITTED"
         /\ otpStore[key] # None
         /\ ~OtpExpired(otpStore[key][1])
         /\ \E in \in VerifyInputs : VerifyOtp(p, a, in.otp, in.body)
         /\ \A u \in Users, b \in AssignmentIds, in \in VerifyInputs :
              VerifyOtp(u, b, in.otp, in.body) =>
                /\ u = p
                /\ b = a
                /\ Trim(in.otp) = otpStore[key][1].otp
         /\ \A k \in OtpKeys \ {key} : otpStore'[k] = otpStore[k]
         /\ \A b \in Rows \ {a} : assignments'[b] = assignments[b]]_vars

\* an approval of one assignment has been committed while the other assignment
\* of the same reviewer is still SUBMITTED with its own record in the store
C3_Witness ==
  /\ last = Reply("verifyOtp", 200, "OK")
  /\ history[Len(history)].action = "APPROVED"
  /\ \E a \in Rows, b \in Rows :
       /\ assignments[a].status = "APPROVED"
       /\ history[Len(history)].assignmentId = a
       /\ history[Len(history)].reviewerId = assignments[a].reviewerId
       /\ assignments[b].status = "SUBMITTED"
       /\ assignments[b].reviewerId = assignments[a].reviewerId
       /\ otpStore[<<b, assignments[b].reviewerId>>] # None
       /\ otpStore[<<a, assignments[a].reviewerId>>] = None

\* C4: every resubmit by the owner of a REJECTED assignment succeeds (short of a
\* failing database write), returns the assignment to SUBMITTED under the
\* reviewer it had, and notifies that reviewer.
C4_RejectedCanResubmit ==
  [][last'.op = "resubmit" =>
     \A u \in StudentCallers, a \in AssignmentIds, in \in ResubmitInputs :
       ( /\ Resubmit(u, a, in.description, in.file)
         /\ Exists(a)
         /\ assignments[a].studentId = u
         /\ assignments[a].status = "REJECTED"
         /\ in.file # "txt" ) =>
           /\ last'.err \in {"OK", "Internal"}
           /\ last'.err = "OK" =>
                /\ assignments'[a].status = "SUBMITTED"
                /\ assignments'[a].reviewerId = assignments[a].reviewerId
                /\ assignments'[a].reviewerId # NULL
                /\ Len(notifications') = Len(notifications) + 1
                /\ notifications'[Len(notifications')].userId =
                     assignments[a].reviewerId]_vars

\* C5: a reject or a requestApprovalOtp made by the current reviewer, a
\* professor, of a FORWARDED assignment is carried out as for a SUBMITTED one
\* (short of a failing database write or mail).
C5_ForwardedCanBeDecided ==
  [][last'.op \in {"reject", "requestOtp"} =>
     \A u \in Users, a \in AssignmentIds :
       ( /\ Exists(a)
         /\ assignments[a].status = "FORWARDED"
         /\ assignments[a].reviewerId = u
         /\ userRole[u] = "PROFESSOR" ) =>
           /\ \A remark \in RemarkInputs :
                (Reject(u, a, remark) /\ Len(TrimmedRemark(remark)) >= MIN_REMARK) =>
                   last'.err \in {"OK", "Internal"}
           /\ \A body \in RequestBodies :
                RequestOtp(u, a, body) => last'.err \in {"OK", "Internal"}]_vars

\* C6: an assignment that is SUBMITTED or FORWARDED has a reviewer, and a
\* REJECTED assignment (only reject sets that status) has none.
C6_ReviewerInvariant ==
  \A a \in Rows :
    /\ assignments[a].status \in {"SUBMITTED", "FORWARDED"} =>
         assignments[a].reviewerId \in Users
    /\ assignments[a].status = "REJECTED" => assignments[a].reviewerId = NULL

\* a reject has cleared the reviewer of the assignment
C6_Witness ==
  /\ last = Reply("reject", 200, "OK")
  /\ \E a \in Rows : /\ assignments[a].status = "REJECTED"
                     /\ assignments[a].reviewerId = NULL
                     /\ history[Len(history)].action = "REJECTED"

Edges ==
  { <<"DRAFT", "SUBMITTED">>,
    <<"SUBMITTED", "APPROVED">>, <<"SUBMITTED", "REJECTED">>,
    <<"SUBMITTED", "FORWARDED">>,
    <<"FORWARDED", "FORWARDED">>, <<"FORWARDED", "APPROVED">>,
    <<"FORWARDED", "REJECTED">>,
    <<"REJECTED", "SUBMITTED">> }

\* C7: every change of an assignment's status or reviewer follows an edge of
\* the lifecycle graph, and an APPROVED assignment keeps its status and its
\* reviewer for ever.
C7_Lifecycle ==
  [][\A a \in Rows :
       /\ ( \/ assignments'[a].status # assignments[a].status
            \/ assignments'[a].reviewerId # assignments[a].reviewerId ) =>
            <<assignments[a].status, assignments'[a].status>> \in Edges
       /\ assignments[a].status = "APPROVED" =>
            /\ assignments'[a].status = "APPROVED"
            /\ assignments'[a].reviewerId = assignments[a].reviewerId]_vars

\* an APPROVED assignment has since been the target of a refused request
C7_Witness ==
  /\ \E a \in Rows : assignments[a].status = "APPROVED"
  /\ last.op \in {"reject", "forward", "submit", "resubmit", "requestOtp", "verifyOtp"}
  /\ last.status \in {400, 404}

\* C8: every step either changes an assignment row, appends one history row
\* and appends one notification, or does none of the three.
C8_AtomicTransitions ==
  [][LET changed == \E a \in Rows : assignments'[a] # assignments[a]
         logged == Len(history') = Len(history) + 1
         notified == Len(notifications') = Len(notifications) + 1 IN
     /\ changed <=> logged
     /\ changed <=> notified]_vars

\* the signature a verify request and the stored record yield: the request's,
\* else the pending one, else the approver's email
C9_Signature(u, rec, body) ==
  IF body.signature # None THEN body.signature[1]
  ELSE IF rec.signature # None THEN rec.signature[1]
  ELSE userEmail[u]

\* what C9 states for a verify step by a professor that finds a record whose
\* code matches and has not expired; stored(u, sig) is what the claim expects
\* in the APPROVED history row for approver u and signature sig
C9_Step(u, a, in, stored(_, _)) ==
  LET key == <<a, u>>
      rec == otpStore[key][1] IN
  IF PendingReviewBy(a, u)
    THEN /\ last'.err \in {"OK", "Internal"}
         /\ last'.err = "Internal" =>
              UNCHANGED << assignments, history, notifications, otpStore >>
         /\ last'.err = "OK" =>
              /\ assignments' = [assignments EXCEPT ![a].status = "APPROVED"]
              /\ Len(history') = Len(history) + 1
              /\ SubSeq(history', 1, Len(history)) = history
              /\ history'[Len(history')].assignmentId = a
              /\ history'[Len(history')].reviewerId = u
              /\ history'[Len(history')].action = "APPROVED"
              /\ history'[Len(history')].signature =
                   stored(u, C9_Signature(u, rec, in.body))
              /\ notifications' = Append(notifications,
                   [userId |-> assignments[a].studentId, assignmentId |-> a,
                    type |-> "ASSIGNMENT_APPROVED", read |-> FALSE])
              /\ otpStore' = [otpStore EXCEPT ![key] = None]
    ELSE /\ last' = Reply("verifyOtp", 404, "NotFound")
         /\ otpStore' = [otpStore EXCEPT ![key] = None]
         /\ UNCHANGED << assignments, history, notifications >>

C9_Steps(stored(_, _)) ==
  last'.op = "verifyOtp" =>
    \A u \in Users, a \in AssignmentIds, in \in VerifyInputs :
      ( /\ userRole[u] = "PROFESSOR"
        /\ otpStore[<<a, u>>] # None
        /\ now <= otpStore[<<a, u>>][1].expiresAt
        /\ Trim(in.otp) # << >>
        /\ Trim(in.otp) = otpStore[<<a, u>>][1].otp
        /\ VerifyOtp(u, a, in.otp, in.body) ) =>
          C9_Step(u, a, in, stored)

C9_Hashed(u, sig) == signatureHash(sig)
C9_HashedOrName(u, sig) == IF sig # << >> THEN signatureHash(sig) ELSE userName[u]

\* C9 as stated: the APPROVED history row always carries the hash of the
\* signature.
C9_SignatureAlwaysHashed == [][C9_Steps(C9_Hashed)]_vars

\* C9 as amended: a verify that finds a matching, unexpired code approves only
\* an assignment still SUBMITTED under the approver (status APPROVED, one
\* APPROVED history row, one notification for the owner, record deleted), and
\* otherwise answers NotFound, deletes the record and changes nothing else. The
\* history row carries the hash of the signature when the signature is not
\* empty, and the approver's display name when the request passes an empty
\* signature.
C9_VerifyApproves == [][C9_Steps(C9_HashedOrName)]_vars

\* an approval whose request passed an empty signature stored the approver's name
C9_Witness ==
  /\ last = Reply("verifyOtp", 200, "OK")
  /\ history # << >>
  /\ history[Len(history)].action = "APPROVED"
  /\ history[Len(history)].signature = userName[history[Len(history)].reviewerId]
  /\ notifications[Len(notifications)].type = "ASSIGNMENT_APPROVED"

\* C10: a verify by a professor whose code differs from the stored, unexpired
\* code answers 400 InvalidCode and changes neither the OTP store nor the
\* assignment, the history or the notifications; if the assignment is still
\* pending the approver's review, the stored code still passes every check of
\* verify afterwards.
C10_WrongCodeKeepsRecord ==
  [][last'.op = "verifyOtp" =>
     \A u \in Users, a \in AssignmentIds, in \in VerifyInputs :
      ( /\ userRole[u] = "PROFESSOR"
        /\ otpStore[<<a, u>>] # None
        /\ now <= otpStore[<<a, u>>][1].expiresAt
        /\ Trim(in.otp) # << >>
        /\ Trim(in.otp) # otpStore[<<a, u>>][1].otp
        /\ VerifyOtp(u, a, in.otp, in.body) ) =>
          /\ last' = Reply("verifyOtp", 400, "InvalidCode")
          /\ UNCHANGED << otpStore, assignments, history, notifications >>
          /\ PendingReviewBy(a, u) =>
               (VerifyOtpCheck(u, a, otpStore[<<a, u>>][1].otp))' = <<200, "OK">>]_vars

\* a wrong code was refused while the record and the SUBMITTED status remain
C10_Witness ==
  /\ last = Reply("verifyOtp", 400, "InvalidCode")
  /\ \E a \in Rows : /\ assignments[a].status = "SUBMITTED"
                     /\ otpStore[<<a, assignments[a].reviewerId>>] # None
\* C11: a verify by a professor that finds a record whose expiresAt lies before
\* the current time answers 400 Expired whatever the code, removes that record
\* and changes nothing else; Expired is answered only then; and the passing of
\* time alone removes no record.
C11_ExpiredOtp ==
  [][/\ last'.op = "verifyOtp" =>
          \A u \in Users, a \in AssignmentIds, in \in VerifyInputs :
            ( /\ userRole[u] = "PROFESSOR"
              /\ otpStore[<<a, u>>] # None
              /\ in.otp # << >>
              /\ VerifyOtp(u, a, in.otp, in.body) ) =>
                /\ now > otpStore[<<a, u>>][1].expiresAt =>
                     /\ last' = Reply("verifyOtp", 400, "Expired")
                     /\ otpStore' = [otpStore EXCEPT ![<<a, u>>] = None]
                     /\ UNCHANGED << assignments, history, notifications >>
                /\ last'.err = "Expired" => now > otpStore[<<a, u>>][1].expiresAt
     /\ now' # now => otpStore' = otpStore]_vars

\* a verify was refused as Expired: the assignment is still SUBMITTED and the
\* reviewer's record is gone
C11_Witness ==
  /\ last = Reply("verifyOtp", 400, "Expired")
  /\ \E a \in Rows : /\ assignments[a].status = "SUBMITTED"
                     /\ otpStore[<<a, assignments[a].reviewerId>>] = None
\* the pending text a request-otp body leaves in the record: the text when it
\* is given and not empty
C12_Pending(opt) == IF opt # None /\ opt[1] # << >> THEN opt ELSE None

\* C12: a request-otp step never changes the assignment, the history or the
\* notifications, and touches no key but (assignment, approver). It answers 200
\* only when the assignment is SUBMITTED under the approver, and then the record
\* under the key holds a six-digit code, an expiry 10 minutes after the current
\* time and the pending remark and signature. When the assignment is not
\* SUBMITTED under the approver the store is unchanged and the answer is 404
\* NotFound (403 for a caller the route's role check refuses).
C12_RequestOtpContract ==
  [][last'.op = "requestOtp" =>
     \A u \in Users, a \in AssignmentIds, body \in RequestBodies :
       RequestOtp(u, a, body) =>
         LET key == <<a, u>>
             pending == /\ Exists(a)
                        /\ assignments[a].status = "SUBMITTED"
                        /\ assignments[a].reviewerId = u IN
         /\ UNCHANGED << assignments, history, notifications >>
         /\ \A k \in OtpKeys \ {key} : otpStore'[k] = otpStore[k]
         /\ last'.status = 200 =>
              /\ pending
              /\ otpStore'[key] # None
              /\ Len(otpStore'[key][1].otp) = 6
              /\ otpStore'[key][1].expiresAt = now + 600000
              /\ otpStore'[key][1].remarks = C12_Pending(body.remarks)
              /\ otpStore'[key][1].signature = C12_Pending(body.signature)
         /\ ~pending =>
              /\ otpStore' = otpStore
              /\ IF userRole[u] = "PROFESSOR"
                   THEN last' = Reply("requestOtp", 404, "NotFound")
                   ELSE last' = Reply("requestOtp", 403, "Forbidden")]_vars

\* a request-otp has stored a record with a pending remark and signature
C12_Witness ==
  /\ last = Reply("requestOtp", 200, "OK")
  /\ \E a \in Rows :
       /\ assignments[a].status = "SUBMITTED"
       /\ otpStore[<<a, assignments[a].reviewerId>>] # None
       /\ otpStore[<<a, assignments[a].reviewerId>>][1].remarks = Some(<<"o","k">>)
       /\ otpStore[<<a, assignments[a].reviewerId>>][1].expiresAt = now + 600000
\* C13: a HOD who is the current reviewer of an assignment is admitted to
\* request-otp, verify and reject as a professor is: none of the three refuses
\* the HOD for its role.
C13_HodCanReview ==
  [][last'.op \in {"requestOtp", "verifyOtp", "reject"} =>
     \A u \in Users, a \in AssignmentIds :
       ( /\ userRole[u] = "HOD"
         /\ Exists(a)
         /\ assignments[a].reviewerId = u ) =>
           /\ \A body \in RequestBodies :
                RequestOtp(u, a, body) => last'.status # 403
           /\ \A in \in VerifyInputs :
                VerifyOtp(u, a, in.otp, in.body) => last'.status # 403
           /\ \A remark \in RemarkInputs :
                Reject(u, a, remark) => last'.status # 403]_vars
\* C14: every successful forward assigns a reviewer whose department is the
\* department of the assignment's owner, and a forward to a user of another
\* department than the owner's is refused and changes nothing.
C14_ForwardKeepsDepartment ==
  [][last'.op = "forward" =>
     \A u \in Users, a \in AssignmentIds, r \in ReviewerInputs, note \in NoteInputs :
       Forward(u, a, r, note) =>
         /\ last'.status = 200 =>
              userDept[r] = userDept[assignments[a].studentId]
         /\ ( /\ r \in Users
              /\ Exists(a)
              /\ userDept[r] # userDept[assignments[a].studentId] ) =>
                /\ last'.status # 200
                /\ UNCHANGED << assignments, history, notifications >>]_vars
\* C15: a forward step answers 200 only when the assignment is SUBMITTED or
\* FORWARDED under the caller and the target is another user, a PROFESSOR or
\* HOD of the caller's department; it then sets the target as reviewer and the
\* status FORWARDED, appends one FORWARDED history row by the caller with the
\* note, and one notification for the target. When a precondition fails, and on
\* every other answer, assignment, history and notifications are unchanged.
C15_ForwardContract ==
  [][last'.op = "forward" =>
     \A u \in Users, a \in AssignmentIds, r \in ReviewerInputs, note \in NoteInputs :
       Forward(u, a, r, note) =>
         LET pre == /\ Exists(a)
                    /\ assignments[a].status \in {"SUBMITTED", "FORWARDED"}
                    /\ assignments[a].reviewerId = u
                    /\ r \in Users
                    /\ r # u
                    /\ userRole[r] \in {"PROFESSOR", "HOD"}
                    /\ userDept[r] = userDept[u] IN
         /\ last'.status = 200 =>
              /\ pre
              /\ assignments' = [assignments EXCEPT ![a].reviewerId = r,
                                                    ![a].status = "FORWARDED"]
              /\ Len(history') = Len(history) + 1
              /\ SubSeq(history', 1, Len(history)) = history
              /\ history'[Len(history')].assignmentId = a
              /\ history'[Len(history')].reviewerId = u
              /\ history'[Len(history')].action = "FORWARDED"
              /\ history'[Len(history')].remark = Some(Trim(note[1]))
              /\ notifications' = Append(notifications,
                   [userId |-> r, assignmentId |-> a,
                    type |-> "ASSIGNMENT_FORWARDED", read |-> FALSE])
         /\ ~pre => last'.status \in {400, 403, 404}
         /\ last'.status # 200 =>
              UNCHANGED << assignments, history, notifications >>]_vars

\* a forward to the HOD has been carried out, logged and notified
C15_Witness ==
  /\ last = Reply("forward", 200, "OK")
  /\ \E a \in Rows :
       /\ assignments[a].status = "FORWARDED"
       /\ assignments[a].reviewerId = 3
       /\ history[Len(history)].action = "FORWARDED"
       /\ history[Len(history)].assignmentId = a
       /\ history[Len(history)].remark = Some(<<"c","h","e","c","k">>)
       /\ notifications[Len(notifications)].userId = 3
\* the remark of a reject request without the white space around it, and
\* whether it has the 10 characters a rejection needs
C16_Remark(remark) == IF remark = None THEN << >> ELSE Trim(remark[1])
C16_ValidRemark(remark) == Len(C16_Remark(remark)) >= 10

\* C16: a reject step with a valid remark answers 200 only when the assignment
\* is SUBMITTED under the caller; it then sets REJECTED and no reviewer, appends
\* one REJECTED history row with the remark and the caller's display name as
\* signature, and one notification for the owner. A caller who is not the
\* assigned reviewer gets 404 NotFound (403 when the route's role check refuses
\* the caller), and on every answer but 200 nothing changes.
C16_RejectContract ==
  [][last'.op = "reject" =>
     \A u \in Users, a \in AssignmentIds, remark \in RemarkInputs :
       (C16_ValidRemark(remark) /\ Reject(u, a, remark)) =>
         LET assigned == /\ Exists(a)
                         /\ assignments[a].status = "SUBMITTED"
                         /\ assignments[a].reviewerId = u IN
         /\ last'.status = 200 =>
              /\ assigned
              /\ assignments' = [assignments EXCEPT ![a].status = "REJECTED",
                                                    ![a].reviewerId = NULL]
              /\ history' = Append(history,
                   [assignmentId |-> a, reviewerId |-> u, action |-> "REJECTED",
                    remark |-> Some(C16_Remark(remark)), signature |-> userName[u]])
              /\ notifications' = Append(notifications,
                   [userId |-> assignments[a].studentId, assignmentId |-> a,
                    type |-> "ASSIGNMENT_REJECTED", read |-> FALSE])
         /\ ~assigned =>
              IF userRole[u] = "PROFESSOR"
                THEN last' = Reply("reject", 404, "NotFound")
                ELSE last' = Reply("reject", 403, "Forbidden")
         /\ last'.status # 200 =>
              UNCHANGED << assignments, history, notifications, otpStore >>]_vars

\* a reject has been carried out, logged under the reviewer's name and notified
C16_Witness ==
  /\ last = Reply("reject", 200, "OK")
  /\ \E a \in Rows :
       /\ assignments[a].status = "REJECTED"
       /\ history[Len(history)].action = "REJECTED"
       /\ history[Len(history)].signature = userName[history[Len(history)].reviewerId]
       /\ history[Len(history)].remark = Some(<<"n","e","e","d","s"," ","w","o","r","k">>)
       /\ notifications[Len(notifications)].userId = assignments[a].studentId
       /\ notifications[Len(notifications)].type = "ASSIGNMENT_REJECTED"

\* C17: a reject step whose remark has fewer than 10 characters once the white
\* space around it is removed answers 400 ValidationError for every caller the
\* route admits, whatever the assignment (403 for a caller the role check
\* refuses); it changes neither assignments, history, notifications nor the
\* OTP store, and the same request is refused the same way afterwards.
C17_ShortRemark ==
  [][last'.op = "reject" =>
     \A u \in Users, a \in AssignmentIds, remark \in RemarkInputs :
       (~C16_ValidRemark(remark) /\ Reject(u, a, remark)) =>
         /\ IF userRole[u] = "PROFESSOR"
              THEN last' = Reply("reject", 400, "ValidationError")
              ELSE last' = Reply("reject", 403, "Forbidden")
         /\ UNCHANGED << assignments, history, notifications, otpStore >>
         /\ (RejectCheck(u, a, remark))' = <<last'.status, last'.err>>]_vars

\* a short remark was refused for the reviewer of a SUBMITTED assignment
C17_Witness ==
  /\ last = Reply("reject", 400, "ValidationError")
  /\ \E a \in Rows : /\ assignments[a].status = "SUBMITTED"
                     /\ assignments[a].reviewerId \in Users
\* C18: a resubmit step answers 200 only for an assignment of the caller that
\* is REJECTED, and then the status is SUBMITTED and submittedAt is the current
\* time, which never runs backwards; for an assignment of the caller in any
\* other status it answers 400 InvalidState and changes neither the
\* assignment, the history nor the notifications.
C18_ResubmitOnlyRejected ==
  [][/\ now' >= now
     /\ last'.op = "resubmit" =>
          \A u \in StudentCallers, a \in AssignmentIds, in \in ResubmitInputs :
            Resubmit(u, a, in.description, in.file) =>
              /\ last'.status = 200 =>
                   /\ Exists(a)
                   /\ assignments[a].status = "REJECTED"
                   /\ assignments'[a].status = "SUBMITTED"
                   /\ assignments'[a].submittedAt = Some(now)
              /\ ( /\ Exists(a)
                   /\ assignments[a].studentId = u
                   /\ assignments[a].status # "REJECTED" ) =>
                     /\ last' = Reply("resubmit", 400, "InvalidState")
                     /\ UNCHANGED << assignments, history, notifications >>]_vars

\* a resubmit of an assignment that is under review was refused
C18_Witness ==
  /\ last = Reply("resubmit", 400, "InvalidState")
  /\ \E a \in Rows : assignments[a].status \in {"SUBMITTED", "FORWARDED", "APPROVED"}

\* C19: a submit step for a DRAFT assignment of the caller answers 200 only
\* when the chosen reviewer is a PROFESSOR of the caller's department; with a
\* reviewer of another role or department it answers InvalidReviewer, the
\* assignment is still DRAFT without reviewer, and history and notifications
\* are unchanged.
C19_SubmitReviewer ==
  [][last'.op = "submit" =>
     \A u \in StudentCallers, a \in AssignmentIds, r \in ReviewerInputs :
       ( /\ r \in Users
         /\ Exists(a)
         /\ assignments[a].studentId = u
         /\ assignments[a].status = "DRAFT"
         /\ Submit(u, a, r) ) =>
           LET valid == userRole[r] = "PROFESSOR" /\ userDept[r] = userDept[u] IN
           /\ last'.status = 200 => valid
           /\ ~valid =>
                /\ last'.err = "InvalidReviewer"
                /\ last'.status \in {400, 404}
                /\ assignments'[a].status = "DRAFT"
                /\ assignments'[a].reviewerId = NULL
                /\ UNCHANGED << assignments, history, notifications >>]_vars

\* a submit to a reviewer of another department or role was refused and the
\* assignment is still a DRAFT
C19_Witness ==
  /\ last.op = "submit"
  /\ last.err = "InvalidReviewer"
  /\ \E a \in Rows : /\ assignments[a].status = "DRAFT"
                     /\ assignments[a].reviewerId = NULL

\* the history action a transition logs
C20_Action(op) ==
  CASE op = "submit" -> "SUBMITTED"
    [] op = "resubmit" -> "SUBMITTED"
    [] op = "reject" -> "REJECTED"
    [] op = "forward" -> "FORWARDED"
    [] op = "verifyOtp" -> "APPROVED"

\* C20: no step changes or removes a history row; and every request of submit,
\* resubmit, reject, forward or verify that answers 200 appends exactly one
\* history row with the action of its transition and exactly one notification.
C20_HistoryAppendOnly ==
  [][/\ Len(history') >= Len(history)
     /\ SubSeq(history', 1, Len(history)) = history
     /\ ( /\ now' = now
          /\ last'.op \in {"submit", "resubmit", "reject", "forward", "verifyOtp"}
          /\ last'.status = 200 ) =>
            /\ Len(history') = Len(history) + 1
            /\ history'[Len(history')].action = C20_Action(last'.op)
            /\ Len(notifications') = Len(notifications) + 1]_vars

\* the outcomes of the two side writes in which at least one fails
C21_Failures == {f \in BOOLEAN \X BOOLEAN : ~(f[1] /\ f[2])}

\* a transition's status update succeeds and its history write or its
\* notification write fails: what submit and resubmit do then
C21_StudentSteps ==
  /\ last'.op = "submit" =>
       \A u \in StudentCallers, a \in AssignmentIds, r \in ReviewerInputs :
         SubmitCheck(u, a, r)[2] = "OK" =>
           \A f \in C21_Failures :
             SubmitWrites(a, r, TRUE, f[1], f[2]) =>
               /\ last' = Reply("submit", 200, "OK")
               /\ assignments'[a].status = "SUBMITTED"
               /\ assignments'[a].reviewerId = r
               /\ ~f[1] => history' = history
               /\ ~f[2] => notifications' = notifications
  /\ last'.op = "resubmit" =>
       \A u \in StudentCallers, a \in AssignmentIds, in \in ResubmitInputs :
         ResubmitCheck(u, a, in.file)[2] = "OK" =>
           \A f \in C21_Failures :
             ResubmitWrites(a, in.description, in.file, TRUE, f[1], f[2]) =>
               /\ last' = Reply("resubmit", 200, "OK")
               /\ assignments'[a].status = "SUBMITTED"
               /\ ~f[1] => history' = history
               /\ ~f[2] => notifications' = notifications

\* the same failure in reject, forward and verify; after(op, a) is what the
\* claim expects of the step of handler op on assignment a
C21_ReviewerSteps(after(_, _)) ==
  /\ last'.op = "reject" =>
       \A u \in Users, a \in AssignmentIds, remark \in RemarkInputs :
         RejectCheck(u, a, remark)[2] = "OK" =>
           \A f \in C21_Failures :
             RejectTransaction(u, a, remark, TransactionOk(TRUE, f[1], f[2])) =>
               after("reject", a)
  /\ last'.op = "forward" =>
       \A u \in Users, a \in AssignmentIds, r \in ReviewerInputs, note \in NoteInputs :
         ForwardCheck(u, a, r)[2] = "OK" =>
           \A f \in C21_Failures :
             ForwardTransaction(u, a, r, note, TransactionOk(TRUE, f[1], f[2])) =>
               after("forward", a)
  /\ last'.op = "verifyOtp" =>
       \A u \in Users, a \in AssignmentIds, in \in VerifyInputs :
         VerifyOtpCheck(u, a, in.otp)[2] = "OK" =>
           \A f \in C21_Failures :
             ApproveTransaction(u, a, in.body, TransactionOk(TRUE, f[1], f[2])) =>
               after("verifyOtp", a)

C21_Status(op) ==
  CASE op = "reject" -> "REJECTED"
    [] op = "forward" -> "FORWARDED"
    [] op = "verifyOtp" -> "APPROVED"

\* the failure is swallowed: the new status stays and the answer is 200
C21_Swallowed(op, a) ==
  /\ last' = Reply(op, 200, "OK")
  /\ assignments'[a].status = C21_Status(op)

\* the failure undoes the status update: the answer is 500 and nothing changed
C21_RolledBack(op, a) ==
  /\ last' = Reply(op, 500, "Internal")
  /\ UNCHANGED << assignments, history, notifications, otpStore >>

\* C21 as stated: in every transition a failing history or notification write
\* after a successful status update is swallowed, the status change stays and
\* the request reports success.
C21_FailureSwallowed ==
  [][C21_StudentSteps /\ C21_ReviewerSteps(C21_Swallowed)]_vars

\* C21 as amended: submit and resubmit swallow a failing history or
\* notification write (status SUBMITTED stays, the answer is 200, the failed
\* row is missing); reject, forward and verify answer 500 Internal and leave
\* assignments, history, notifications and the OTP store as they were.
C21_SwallowedOutsideTransactions ==
  [][C21_StudentSteps /\ C21_ReviewerSteps(C21_RolledBack)]_vars

\* a submit has reported success although its history row and its notification
\* were not written
C21_Witness ==
  /\ last = Reply("submit", 200, "OK")
  /\ history = << >>
  /\ notifications = << >>
  /\ \E a \in Rows : assignments[a].status = "SUBMITTED"

\* what C22 expects of a request that is refused: it is not answered with a
\* success, and the tables are as before
C22_Refused ==
  /\ last'.status \notin {200, 201}
  /\ UNCHANGED << departments, users, userDept >>

\* C22: every create, update and delete of a department or of a user asked
\* for with the token of a student, a professor or a HOD is refused and leaves
\* the departments and the users as they were.
C22_AdminOnly ==
  [][\A role \in TokenRoles \ {"ADMIN"} :
       /\ last'.op = "createDepartment" =>
            \A body \in DepartmentBodies : CreateDepartment(role, body) => C22_Refused
       /\ last'.op = "updateDepartment" =>
            \A id \in DeptIds, body \in DepartmentBodies :
              UpdateDepartment(role, id, body) => C22_Refused
       /\ last'.op = "deleteDepartment" =>
            \A id \in DeptIds : DeleteDepartment(role, id) => C22_Refused
       /\ last'.op = "createUser" =>
            \A body \in UserBodies : CreateUser(role, body) => C22_Refused
       /\ last'.op = "updateUser" =>
            \A id \in UserIds, d \in DeptInputs : UpdateUser(role, id, d) => C22_Refused
       /\ last'.op = "deleteUser" =>
            \A id \in UserIds : DeleteUser(role, id) => C22_Refused]_vars

\* C23: a mark-read step sets read = true on the named notification only when
\* its recipient is the caller and changes nothing else; for a notification of
\* another user or one that does not exist it changes nothing and still
\* answers 200 to a caller the route admits (403 to one its role check
\* refuses, 500 when the database fails); a second identical request changes
\* nothing more; and no other operation changes or removes an existing
\* notification.
C23_MarkRead ==
  [][/\ last'.op = "markRead" =>
          \A u \in Users, n \in NotificationIds :
            MarkRead(u, n) =>
              LET own == n \in 1 .. Len(notifications) /\ notifications[n].userId = u IN
              /\ UNCHANGED << assignments, history, otpStore >>
              /\ Len(notifications') = Len(notifications)
              /\ \A k \in 1 .. Len(notifications) :
                   k # n => notifications'[k] = notifications[k]
              /\ (own /\ last'.status = 200) =>
                   notifications'[n] = [notifications[n] EXCEPT !.read = TRUE]
              /\ ~own =>
                   /\ notifications' = notifications
                   /\ IF userRole[u] = "PROFESSOR"
                        THEN last'.err \in {"OK", "Internal"}
                        ELSE last' = Reply("markRead", 403, "Forbidden")
              /\ last'.status = 200 =>
                   MarkReadUpdate(notifications', n, u) = notifications'
     /\ \A k \in 1 .. Len(notifications) :
          \/ /\ k <= Len(notifications')
             /\ notifications'[k] = notifications[k]
          \/ /\ k <= Len(notifications')
             /\ last' = Reply("markRead", 200, "OK")
             /\ now' = now
             /\ notifications'[k] = [notifications[k] EXCEPT !.read = TRUE]]_vars

\* the reviewer has marked the notification of a submission as read, and a
\* later notification of another user is still unread
C23_Witness ==
  /\ last = Reply("markRead", 200, "OK")
  /\ Len(notifications) >= 2
  /\ notifications[1].read
  /\ notifications[1].userId = 2
  /\ ~notifications[2].read

\* the users a claim expects in the list of caller u
C24_Eligible(u) ==
  {t \in users : /\ t # u
                 /\ userRole[t] \in {"PROFESSOR", "HOD"}
                 /\ userDept[t] = userDept[u]}

\* C24: for every caller the listing answers, and whichever of the two roles
\* the Role enum declares first, the list holds exactly the PROFESSOR and HOD
\* users of the caller's department other than the caller, each once, all of
\* one role before all of the other and by name within a role; a listing step
\* changes nothing; and a forward step of an assignment under the caller's
\* review passes its checks exactly when the target is in the caller's list.
C24_ForwardRecipients ==
  [][/\ \A u \in Users, order \in RoleOrders :
          ForwardRecipientsCheck(u)[2] = "OK" =>
            LET l == recipients(u, order)
                n == Len(l) IN
            /\ {l[i] : i \in 1 .. n} = C24_Eligible(u)
            /\ n = Cardinality(C24_Eligible(u))
            /\ \A i \in 1 .. n, j \in 1 .. n :
                 i < j =>
                   IF userRole[l[i]] = userRole[l[j]]
                     THEN NameLeq(userName[l[i]], userName[l[j]])
                     ELSE /\ userRole[l[i]] = order[1]
                          /\ userRole[l[j]] = order[2]
     /\ last'.op = "forwardRecipients" =>
          /\ UNCHANGED << assignments, history, notifications, otpStore, userDept,
                          departments, users >>
          /\ \A u \in Users :
               (ForwardRecipients(u) /\ last'.status = 200) =>
                  u \in users /\ userRole[u] \in {"PROFESSOR", "HOD"}
     /\ last'.op = "forward" =>
          \A u \in Users, a \in AssignmentIds, r \in Users, note \in NoteInputs,
             order \in RoleOrders :
            (UnderReviewBy(a, u) /\ Forward(u, a, r, note)) =>
              ( last'.err \in {"OK", "Internal"}
                  <=> /\ ForwardRecipientsCheck(u)[2] = "OK"
                      /\ \E i \in 1 .. Len(recipients(u, order)) :
                           recipients(u, order)[i] = r )]_vars

\* professor 4 has been moved to department 1, the list of professor 2 holds the
\* HOD and professor 4, and a forward of professor 2 to professor 4 has passed
C24_Witness ==
  /\ last = Reply("forward", 200, "OK")
  /\ userDept[4] = userDept[2]
  /\ \E a \in Rows : /\ assignments[a].reviewerId = 4
                     /\ history[Len(history)].reviewerId = 2
  /\ Len(recipients(2, << "PROFESSOR", "HOD" >>)) = 2
  /\ recipients(2, << "PROFESSOR", "HOD" >>)[1] = 4
  /\ recipients(2, << "HOD", "PROFESSOR" >>)[1] = 3

\* C25: in every state the administrator's routes reach, the department of
\* every user is one row of the Department table; a step that deletes a
\* department deletes one without users, and a step that creates a user or
\* changes a user's department names a department that exists.
C25_UserDepartment ==
  [][/\ \A u \in users : DeptExists(userDept[u])
     /\ \A u \in users' : (DeptExists(userDept[u]))'
     /\ \A d \in DeptIds :
          (DeptExists(d) /\ ~(DeptExists(d))') =>
             /\ last' = Reply("deleteDepartment", 200, "OK")
             /\ \A u \in users : userDept[u] # d
     /\ \A u \in users' :
          (u \notin users \/ userDept'[u] # userDept[u]) =>
             /\ last'.op \in {"createUser", "updateUser"}
             /\ DeptExists(userDept'[u])]_vars

\* a user was created in a new department and deleted again, and the
\* department, left without users, has been deleted
C25_Witness ==
  /\ last = Reply("deleteDepartment", 200, "OK")
  /\ Len(departments) = 3
  /\ departments[3] = None
  /\ Len(userDept) = 5
  /\ userDept[5] = 3
  /\ 5 \notin users


\* the APPROVED entries and the REJECTED or FORWARDED entries of assignment a
C26_Approvals(a) ==
  {i \in DOMAIN history :
     history[i].assignmentId = a /\ history[i].action = "APPROVED"}
C26_Others(a) ==
  {i \in DOMAIN history :
     history[i].assignmentId = a /\ history[i].action \in {"REJECTED", "FORWARDED"}}

C27_SingleUse ==
  \A a \in DOMAIN assignments :
    /\ Cardinality({i \in DOMAIN history :
                      history[i].assignmentId = a
                      /\ history[i].action = "APPROVED"}) <= 1
    /\ Cardinality({i \in DOMAIN notifications :
                      notifications[i].assignmentId = a
                      /\ notifications[i].type = "ASSIGNMENT_APPROVED"}) <= 1


\* the record a request with this body stores when it issues the code otp
C28_Issued(body, otp) ==
  [otp |-> otp, expiresAt |-> now + OTP_EXPIRY_MS,
   remarks |-> IF body.remarks \in {None, Some(<< >>)} THEN None ELSE body.remarks,
   signature |-> IF body.signature \in {None, Some(<< >>)} THEN None
                 ELSE body.signature]

\* C28: a successful request for a code leaves exactly one record under its
\* key, whatever the key held before: the record carries the code just
\* issued, the remarks and signature of this request and an expiry ten
\* minutes after this request; the other keys keep their records; and from
\* then on a verify passes the code check only with the code just issued.
C28_LatestRecord ==
  [][last'.op = "requestOtp" /\ last'.status = 200 =>
       \A u \in Users, a \in AssignmentIds, body \in RequestBodies :
         RequestOtp(u, a, body) =>
           /\ \E otp \in generateOtp :
                /\ otpStore'[OtpKey(a, u)] = << C28_Issued(body, otp) >>
                /\ \A in \in VerifyInputs :
                     in.otp # << >> =>
                       /\ VerifyOtpCheck(u, a, in.otp)'[2] # "InvalidCode"
                            <=> Trim(in.otp) = otp
                       /\ VerifyOtpCheck(u, a, in.otp)'[2] \notin {"NoOtp", "Expired"}
           /\ \A k \in OtpKeys \ {OtpKey(a, u)} : otpStore'[k] = otpStore[k]]_vars

\* a second request, made ten minutes after the start, has stored the other
\* code with its own remarks and an expiry counted from that request
C28_Witness ==
  /\ last = Reply("requestOtp", 200, "OK")
  /\ now = TickMs
  /\ otpStore[OtpKey(1, 2)] =
       << [otp |-> Otp2, expiresAt |-> TickMs + OTP_EXPIRY_MS,
           remarks |-> Some(<<"o","k">>), signature |-> Some(<<"s","i","g">>)] >>


\* C29: a request for a code whose mail fails answers 500 and leaves no
\* record under its key, a record of an earlier request included; the other
\* keys, the assignments, the history and the notifications are as before; no
\* verify for that key passes its checks in the state that follows; and a
\* verify succeeds only from a state that holds a record for its key.
C29_MailFailure ==
  [][/\ last'.op = "requestOtp" /\ last'.status \notin {200, 403, 404} =>
          \A u \in Users, a \in AssignmentIds, body \in RequestBodies :
            RequestOtp(u, a, body) =>
              /\ last'.status = 500
              /\ otpStore' = [otpStore EXCEPT ![OtpKey(a, u)] = None]
              /\ UNCHANGED << assignments, history, notifications >>
              /\ \A in \in VerifyInputs : VerifyOtpCheck(u, a, in.otp)'[2] # "OK"
     /\ last'.op = "verifyOtp" /\ last'.status = 200 =>
          \A u \in Users, a \in AssignmentIds, in \in VerifyInputs :
            VerifyOtp(u, a, in.otp, in.body) => otpStore[OtpKey(a, u)] # None]_vars

\* the mail of professor 2's request for assignment 1 has failed
C29_Witness ==
  /\ last = Reply("requestOtp", 500, "Internal")
  /\ Exists(1) /\ PendingReviewBy(1, 2)
  /\ otpStore[OtpKey(1, 2)] = None


\* C30: every assignment is created as DRAFT and no step gives an assignment
\* a status other than DRAFT, SUBMITTED, FORWARDED, APPROVED and REJECTED,
\* so none is ever PENDING; and no deletion of a user is refused for pending
\* assignments: an administrator's deletion of an existing user passes the
\* guard, whatever the user owns.
C30_NeverPending ==
  [][/\ \A a \in DOMAIN assignments' :
          /\ assignments'[a].status \in
               {"DRAFT", "SUBMITTED", "FORWARDED", "APPROVED", "REJECTED"}
          /\ a \notin DOMAIN assignments => assignments'[a].status = "DRAFT"
     /\ last'.op = "deleteUser" =>
          \A role \in DeleteRoles, id \in DeleteIds :
            DeleteUser(role, id) =>
              /\ last'.err # "PendingAssignments"
              /\ pendingAssignments(id) = 0
              /\ IsAdmin(role) /\ id \in users => last'.status \in {200, 500}]_vars

\* student 1 has been deleted while owning an assignment that is under review
C30_Witness ==
  /\ last = Reply("deleteUser", 200, "OK")
  /\ 1 \notin users
  /\ \E a \in DOMAIN assignments :
       /\ assignments[a].studentId = 1
       /\ assignments[a].status \in {"SUBMITTED", "FORWARDED"}
====
